---- MODULE Spec2Model ----
(***************************************************************************)
(* btcflow: the asynchronous work queue (utils.py), the bitcoind RPC       *)
(* gateway built on it (bitcoind.py) and the summary cache engine          *)
(* (txdb.py, DbTxSummary.process).                                         *)
(*                                                                         *)
(* Spec        : WorkQueue + BitcoindClient (workers, channel, handles).   *)
(* SpecRpc     : get_raw_transaction calls through a started gateway.      *)
(* SpecPool    : the gateway with several workers posting requests.        *)
(* SpecClose   : the gateway until and after BitcoindClient.close().       *)
(* SpecProcess : one call of DbTxSummary.process over a store.             *)
(* SpecBuckets : operations on one FeeBuckets object (flow.py).            *)
(* SpecBlocks  : two calls of get_min_expected_blocks (flow.py).           *)
(* SpecEstimate: one call of compute_estimates_by_minute (flow.py).        *)
(* SpecCorrection: correction_decreasing_fees on any table (flow.py).      *)
(* SpecSummary : one call of DbTxSummary._compute_tx_summary (txdb.py).    *)
(* SpecTxLog   : DbTxLog.insert / insert_bulk calls on the tx_log store.   *)
(*                                                                         *)
(* All coroutines run on one asyncio event loop: a step of a coroutine     *)
(* runs from one suspension point (await) to the next without              *)
(* interleaving, so each action below is one such step.                    *)
(***************************************************************************)
EXTENDS Integers, Sequences, FiniteSets, TLC

\* ------------------------------------------------------------------ bounds
\* Number of worker tasks start() creates (WorkQueue(workers=...)).
Workers == 1
\* Capacity of the channel (WorkQueue(max_queue_size=...)).
MaxQueueSize == 1
\* Worker tasks of the gateway's queue (WorkQueue(..., workers=8) in bitcoind.py).
RpcWorkers == 2
\* Capacity of the gateway's channel (max_queue_size=10000 in bitcoind.py): it
\* holds every job explored.
PoolQueueSize == 2
\* Number of enqueue calls explored.
MaxJobs == 2
\* Number of times start() finds the queue stopped and creates workers.
MaxStarts == 2
\* Number of transaction ids in the batch given to DbTxSummary.process.
MaxTxids == 3
\* The limit the admission control compares len(pending) with (1000 in txdb.py).
MaxPending == 1
\* Largest absolute value of the RPC error codes explored.
MaxCode == 5
\* Ids per cache query (100000 in txdb.py).
FetchChunk == 2
\* constants.MAX_FEE_RATE (10000 in constants.py), scaled.
MAX_FEE_RATE == 5
\* Operations performed on the FeeBuckets object.
MaxOps == 3

\* The windows explored are 1..MaxWindow block intervals long (constants.py
\* lists 30 to 1440 minutes, that is 3 to 144 intervals).
MaxWindow == 3
\* Windows in the list a table is corrected over.
MaxListed == 3
\* Inputs of the transaction a summary is computed for.
MaxInputs == 2
\* Calls of DbTxLog.insert / insert_bulk.
MaxInserts == 2
\* Terms of the exponential series the Poisson distribution is summed to.
PoissonTerms == 9

\* ------------------------------------------------------- program constants
MIN_FEE_RATE == 1
BLOCK_CAPACITY_WU == 4000000
TARGET_BLOCK_TIME_MINUTES == 10
\* constants.TARGETS_CONFIDENCE = [.5, .8, .9]; probabilities are in tenths.
TARGETS_CONFIDENCE == <<5, 8, 9>>

Jobs == 1..MaxJobs
Txids == 1..MaxTxids

VARIABLES
    \* ---- WorkQueue (utils.py)
    max_queue_size, \* self._max_queue_size
    running,        \* self._running
    worker_tasks,   \* self._worker_tasks: sequence of task records
    queue,          \* self._queue: the jobs waiting in the channel, oldest first
    unfinished,     \* asyncio.Queue._unfinished_tasks (put: +1, task_done: -1)
    putters,        \* jobs whose enqueue() is suspended in queue.put (channel full)
    handle,         \* job -> the future created by enqueue()
    returned,       \* jobs whose enqueue() has returned the future to its caller
    reply,          \* job -> what get_raw_transaction gave its caller
    join_pc,        \* a call of join(): no (not called), waiting, returned
    request_count,  \* BitcoindClient._request_count
    session,        \* BitcoindClient._session: open, closing, closed
    close_pc,       \* BitcoindClient.close(): no (not called), gather, done
    \* ---- history (observation only, never read by an action's guard)
    sets,           \* job -> number of set_result/set_exception calls that took effect
    response,       \* job -> the node's response its processing function received
    cancelledMidJob,\* jobs whose worker was cancelled inside the processing function
    entered,        \* the jobs in the order in which queue.put stored them
    taken,          \* the jobs in the order in which queue.get handed them out
    blockedAt,      \* job -> Len(taken) when its enqueue() suspended (-1: never suspended)
    sent            \* the requests handed to session.post, in that order

VARIABLES
    \* ---- DbTxSummary.process (txdb.py)
    ppc,            \* where process() is: fetch, loop, sleep, gather, returned, raised
    txid_list,      \* the argument
    store,          \* the tx_summary collection: the _id's that have a document
    records,        \* txid -> entry of the result dict
    to_load,        \* queue_ids_to_load
    txid_to_construct,
    idx,            \* position of the for loop in txid_to_construct
    pending,        \* indices (into ptasks) of the tasks in the list `pending`
    ptasks,         \* every construct task created, in creation order
    \* ---- history
    found,          \* ids whose summary the cache queries returned
    rpcBy,          \* txid -> RPC lookups issued by its construct tasks
    insertsBy       \* txid -> insert_one calls issued by its construct tasks

pvars == <<ppc, txid_list, store, records, to_load, txid_to_construct, idx,
           pending, ptasks, found, rpcBy, insertsBy>>

qvars == <<max_queue_size, running, worker_tasks, queue, unfinished, putters, handle, returned,
           reply, join_pc, request_count, session, close_pc, sets, response, cancelledMidJob, entered, taken,
           blockedAt, sent>>

VARIABLES
    \* ---- FeeBuckets (flow.py)
    buckets,        \* self._buckets: fee rate -> weight
    \* ---- history
    ledger,         \* clamped fee rate -> the weight written or accumulated there
    lastop,         \* the last operation: its arguments, the value read before, the error
    nops            \* operations performed

bvars == <<buckets, ledger, lastop, nops>>

VARIABLES
    \* ---- get_min_expected_blocks (flow.py), two calls for the same window
    minutes,        \* the argument minutes of both calls
    target_prob,    \* call -> the argument target_prob, in tenths
    blocks,         \* call -> the local variable blocks
    returned_blocks \* call -> TRUE once the call has returned blocks

kvars == <<minutes, target_prob, blocks, returned_blocks>>

VARIABLES
    \* ---- compute_estimates_by_minute (flow.py)
    mempool,        \* the argument mempool: a FeeBuckets dict
    flow,           \* the argument flow: window -> FeeBuckets dict
    targets_minute, \* the argument targets_minute: a list of windows
    output,         \* window -> confidence -> fee rate
    given_confidence,\* the confidences correction_decreasing_fees is given
    epc,            \* where the call is: "start", "computed" (line 228 done), "returned"
    \* ---- history
    uncorrected     \* output as it was before correction_decreasing_fees

evars == <<mempool, flow, targets_minute, output, given_confidence, epc, uncorrected>>

VARIABLES
    \* ---- DbTxSummary._compute_tx_summary (txdb.py), one call
    node_tx,        \* what the node holds for txid: the decoded transaction (tx)
    spc,            \* where the call is: start, rpc, lookup, returned, raised
    input_txs,      \* _compute_input_sum: input position -> the transaction looked up
    summary,        \* the value returned
    \* ---- history
    lookups,        \* get_raw_transaction calls issued by _compute_input_sum
    raised_exc      \* the exception that ended the call

svars == <<node_tx, spc, input_txs, summary, lookups, raised_exc>>

VARIABLES
    \* ---- DbTxLog (txdb.py)
    tx_log,         \* the tx_log collection: _id -> time, for the stored documents
    write_ops,      \* operations of bulk writes in progress: operation -> how many
    \* ---- history
    given,          \* the (txid, timestamp) records passed to insert / insert_bulk
    ninserts,       \* calls of insert / insert_bulk made
    log_exc,        \* the exception of the last call
    applied         \* the operation applied last and the time stored before it (0: none)

lvars == <<tx_log, write_ops, given, ninserts, log_exc, applied>>

\* What the actions of one component leave alone.
otherThanQueue == <<pvars, bvars, kvars, evars, svars, lvars>>
otherThanProcess == <<qvars, bvars, kvars, evars, svars, lvars>>
otherThanBuckets == <<qvars, pvars, kvars, evars, svars, lvars>>
otherThanBlocks == <<qvars, pvars, bvars, evars, svars, lvars>>
otherThanEstimate == <<qvars, pvars, bvars, kvars, svars, lvars>>
otherThanSummary == <<qvars, pvars, bvars, kvars, evars, lvars>>
otherThanTxLog == <<qvars, pvars, bvars, kvars, evars, svars>>

vars == <<qvars, pvars, bvars, kvars, evars, svars, lvars>>

\* ---------------------------------------------------------------- values
\* A JSON-RPC response of the node: {"result": ..., "error": null | {code, message}}.
NullError == [null |-> TRUE, code |-> 0, message |-> ""]
RpcErr(c, m) == [null |-> FALSE, code |-> c, message |-> m]
\* The WorkQueue specification tells a response that makes the processing
\* function return from one that makes it raise.
Responses ==
    { [error |-> NullError, result |-> "tx"],
      [error |-> RpcErr(-1, "Internal error"), result |-> "null"] }
\* The gateway specification draws the error code from -MaxCode..MaxCode
\* (bitcoind's "not found" is -5), the message and the result.
RpcResponses ==
    { [error |-> NullError, result |-> r] : r \in {"tx", "null"} }
    \cup { [error |-> RpcErr(c, m), result |-> "null"] :
              c \in (-MaxCode..MaxCode) \ {0}, m \in {"not found", "other"} }

\* What a coroutine does when it completes: returns a value or raises.
Return(v) == [kind |-> "return", exc |-> "none", code |-> 0, message |-> "", result |-> v]
Raise(e, c, m) == [kind |-> "raise", exc |-> e, code |-> c, message |-> m, result |-> "null"]
NoOutcome == [kind |-> "none", exc |-> "none", code |-> 0, message |-> "", result |-> "null"]
\* No response received (yet).
NoResponse == [error |-> NullError, result |-> "none"]

\* BitcoindHttpException(code, message)
BitcoindHttpException(c, m) == Raise("BitcoindHttpException", c, m)

\* asyncio.Future: pending until set_result / set_exception / cancel.
PendingFuture == [state |-> "pending", value |-> NoOutcome]
NoFuture == [state |-> "none", value |-> NoOutcome]
CancelledFuture == [state |-> "cancelled", value |-> Raise("CancelledError", 0, "")]

\* A worker task: where its coroutine is suspended, the job it holds, and
\* whether task.cancel() was called and CancelledError is still to be thrown.
Task(p) == [pc |-> p, job |-> 0, cancel |-> FALSE]
Live(t) == t.pc \in {"new", "get", "proc"}

\* --------------------------------------------------- bitcoind.py (gateway)
\* BitcoindClient._process_http: the decoded response's "error" field decides.
ProcessHttp(resp) ==
    IF ~resp.error.null
    THEN BitcoindHttpException(resp.error.code, resp.error.message)
    ELSE Return(resp.result)

\* Awaiting a future: its result is returned, its exception raised; a
\* cancelled future raises CancelledError in the awaiting coroutine.
Await(h) == h.value

\* Variant: every RPC error is taken for "not found".
GetRawTransaction_AnyError(o) ==
    IF o.kind = "raise" /\ o.exc = "BitcoindHttpException"
    THEN Return("None")
    ELSE o

\* BitcoindClient.get_raw_transaction, given what _enqueue_http did.
GetRawTransaction(o) ==
    IF o.kind = "raise" /\ o.exc = "BitcoindHttpException"
    THEN IF o.code = -5 THEN Return("None") ELSE o
    ELSE o

\* ------------------------------------------------------ utils.py (WorkQueue)
\* Variant: no `except asyncio.CancelledError: raise` clause before the
\* BaseException clause.
Handler_NoCancelClause(exc) == "set_exception"

\* The except clauses of WorkQueue._work, in source order: what is done with
\* an exception of class exc raised inside the try block.
Handler(exc) == IF exc = "CancelledError" THEN "reraise" ELSE "set_exception"

\* future.set_result / future.set_exception on a future still pending.
Resolved(o) == [state |-> IF o.kind = "return" THEN "result" ELSE "exception", value |-> o]

\* The except path of one iteration of _work for the future h and exception e:
\* the new future, whether a set took effect, whether task_done() ran, and how
\* the iteration ends (loop again, re-raise out of the task, or crash with the
\* InvalidStateError that set_exception raises on a future no longer pending).
ExceptClause(h, e) ==
    IF Handler(e.exc) = "reraise"
    THEN [h |-> h, set |-> 0, done |-> 0, next |-> "reraise"]
    ELSE IF h.state = "pending"
         THEN [h |-> Resolved(e), set |-> 1, done |-> 1, next |-> "loop"]
         ELSE [h |-> h, set |-> 0, done |-> 0, next |-> "crash"]

\* One iteration of _work from the completion o of the processing function:
\* set_result on success (which raises InvalidStateError into the except
\* clauses when the future is no longer pending), the except path on failure.
WorkIteration(h, o) ==
    IF o.kind = "return"
    THEN IF h.state = "pending"
         THEN [h |-> Resolved(o), set |-> 1, done |-> 1, next |-> "loop"]
         ELSE ExceptClause(h, Raise("InvalidStateError", 0, ""))
    ELSE ExceptClause(h, o)

\* Variant: the worker is handed the newest job of the channel.
LoopTop_Newest(w, q) ==
    IF ~running THEN [pc |-> "exited", job |-> 0, q |-> q, taken |-> taken]
    ELSE IF q # <<>>
         THEN [pc |-> "proc", job |-> q[Len(q)], q |-> SubSeq(q, 1, Len(q) - 1),
               taken |-> Append(taken, q[Len(q)])]
         ELSE [pc |-> "get", job |-> 0, q |-> q, taken |-> taken]

\* `while self._running: (item, future) = await self._queue.get()` for task w
\* over the channel q: the task leaves the loop, takes the oldest job and
\* enters the processing function, or suspends in get() on an empty channel.
LoopTop(w, q) ==
    IF ~running THEN [pc |-> "exited", job |-> 0, q |-> q, taken |-> taken]
    ELSE IF q # <<>>
         THEN [pc |-> "proc", job |-> Head(q), q |-> Tail(q), taken |-> Append(taken, Head(q))]
         ELSE [pc |-> "get", job |-> 0, q |-> q, taken |-> taken]

SetTask(w, l) ==
    [worker_tasks EXCEPT ![w] = [pc |-> l.pc, job |-> l.job, cancel |-> FALSE]]

CancelPending == \E w \in DOMAIN worker_tasks :
                    Live(worker_tasks[w]) /\ worker_tasks[w].cancel

\* str(self._request_count): the decimal digits.
RECURSIVE Str(_)
Str(n) == IF n < 10 THEN <<n>> ELSE Append(Str(n \div 10), n % 10)

\* A plausible slip: the incremented counter is not stored back.
SendRequest_StaleCount(count, log, j) ==
    [count |-> count, sent |-> Append(log, [id |-> Str(count + 1), job |-> j])]

\* _process_http up to its first suspension: self._request_count += 1, the
\* request with "id": str(self._request_count) is built and handed to
\* session.post. Nothing is awaited in between.
SendRequest(count, log, j) ==
    [count |-> count + 1, sent |-> Append(log, [id |-> Str(count + 1), job |-> j])]

\* The processing function starts in the step in which the worker got the job.
BeginProcessing(l) ==
    IF l.pc = "proc" THEN SendRequest(request_count, sent, l.job)
    ELSE [count |-> request_count, sent |-> sent]

\* WorkQueue.__init__
QInit ==
    /\ max_queue_size = MaxQueueSize
    /\ running = FALSE
    /\ worker_tasks = <<>>
    /\ queue = <<>>
    /\ unfinished = 0
    /\ putters = {}
    /\ handle = [j \in Jobs |-> NoFuture]
    /\ returned = {}
    /\ reply = [j \in Jobs |-> NoOutcome]
    /\ join_pc = "no"
    /\ request_count = 0
    /\ session = "open"
    /\ close_pc = "no"
    /\ sent = <<>>
    /\ sets = [j \in Jobs |-> 0]
    /\ response = [j \in Jobs |-> NoResponse]
    /\ cancelledMidJob = {}
    /\ entered = <<>>
    /\ taken = <<>>
    /\ blockedAt = [j \in Jobs |-> -1]

\* Variant: start() without the `if self._running: return` test.
Start_Unguarded ==
    /\ Len(worker_tasks) < MaxStarts * Workers
    /\ running' = TRUE
    /\ worker_tasks' = worker_tasks \o [i \in 1..Workers |-> Task("new")]
    /\ UNCHANGED <<max_queue_size, join_pc, request_count, sent, session, close_pc>>
    /\ UNCHANGED otherThanQueue
    /\ UNCHANGED <<queue, unfinished, putters, handle, returned, reply, sets,
                   response, cancelledMidJob, entered, taken, blockedAt>>

\* WorkQueue.start
StartTasks(n) == [i \in 1..n |-> Task("new")]

Start ==
    /\ IF running
       THEN UNCHANGED <<running, worker_tasks>>
       ELSE /\ Len(worker_tasks) < MaxStarts * Workers
            /\ running' = TRUE
            /\ worker_tasks' = worker_tasks \o StartTasks(Workers)
    /\ UNCHANGED <<max_queue_size, join_pc, request_count, sent, session, close_pc>>
    /\ UNCHANGED otherThanQueue
    /\ UNCHANGED <<queue, unfinished, putters, handle, returned, reply, sets,
                   response, cancelledMidJob, entered, taken, blockedAt>>

\* Variant: stop() only clears the flag.
CancelAll_None(tasks) == tasks

\* `for task in self._worker_tasks: task.cancel()`
CancelAll(tasks) ==
    [w \in DOMAIN tasks |->
        IF Live(tasks[w]) THEN [tasks[w] EXCEPT !.cancel = TRUE] ELSE tasks[w]]

\* WorkQueue.stop: task.cancel() on every task ever created (a finished task
\* ignores it; a live one has CancelledError thrown at its next step).
Stop ==
    /\ running' = FALSE
    /\ worker_tasks' = CancelAll(worker_tasks)
    /\ UNCHANGED <<max_queue_size, join_pc, request_count, sent, session, close_pc>>
    /\ UNCHANGED otherThanQueue
    /\ UNCHANGED <<queue, unfinished, putters, handle, returned, reply, sets,
                   response, cancelledMidJob, entered, taken, blockedAt>>

\* Variant: the channel is created without maxsize and is never full.
Full_Unbounded(q) == FALSE

\* asyncio.Queue(maxsize= max_queue_size).full()
Full(q) == Len(q) >= max_queue_size

\* WorkQueue.enqueue, up to its first suspension: the future is created, and
\* queue.put stores the job at once or suspends on a full channel.
EnqueueCall(j) ==
    /\ handle[j].state = "none"
    /\ \A k \in Jobs : k < j => handle[k].state # "none"
    /\ handle' = [handle EXCEPT ![j] = PendingFuture]
    /\ IF ~Full(queue)
       THEN /\ queue' = Append(queue, j)
            /\ entered' = Append(entered, j)
            /\ unfinished' = unfinished + 1
            /\ returned' = returned \cup {j}
            /\ UNCHANGED <<putters, blockedAt>>
       ELSE /\ putters' = putters \cup {j}
            /\ blockedAt' = [blockedAt EXCEPT ![j] = Len(taken)]
            /\ UNCHANGED <<queue, entered, unfinished, returned>>
    /\ UNCHANGED <<max_queue_size, join_pc, request_count, sent, session, close_pc>>
    /\ UNCHANGED otherThanQueue
    /\ UNCHANGED <<running, worker_tasks, reply, sets, response,
                   cancelledMidJob, taken>>

\* WorkQueue.enqueue resumed inside queue.put once the channel has room: the
\* job is stored and the future returned.
EnqueueResume(j) ==
    /\ j \in putters
    /\ ~Full(queue)
    /\ putters' = putters \ {j}
    /\ queue' = Append(queue, j)
    /\ entered' = Append(entered, j)
    /\ unfinished' = unfinished + 1
    /\ returned' = returned \cup {j}
    /\ UNCHANGED <<max_queue_size, join_pc, request_count, sent, session, close_pc>>
    /\ UNCHANGED otherThanQueue
    /\ UNCHANGED <<running, worker_tasks, handle, reply, sets, response,
                   cancelledMidJob, taken, blockedAt>>

\* The caller of enqueue() cancels the future it was given (a task cancelled
\* while awaiting the future in _enqueue_http cancels it).
CancelHandle(j) ==
    /\ j \in returned
    /\ handle[j].state = "pending"
    /\ handle' = [handle EXCEPT ![j] = CancelledFuture]
    /\ UNCHANGED <<max_queue_size, join_pc, request_count, sent, session, close_pc>>
    /\ UNCHANGED otherThanQueue
    /\ UNCHANGED <<running, worker_tasks, queue, unfinished, putters, returned,
                   reply, sets, response, cancelledMidJob, entered, taken, blockedAt>>

\* First step of a worker task: _work up to its first suspension. The event
\* loop runs ready callbacks in FIFO order: tasks take their first step in
\* creation order, and the wake-ups that stop() caused by task.cancel() run
\* before the first step of a task created after them.
WorkerBegin(w) ==
    /\ w \in DOMAIN worker_tasks
    /\ worker_tasks[w].pc = "new"
    /\ ~worker_tasks[w].cancel
    /\ ~CancelPending
    /\ \A v \in 1..(w - 1) : worker_tasks[v].pc # "new"
    /\ LET l == LoopTop(w, queue) IN
        /\ worker_tasks' = SetTask(w, l)
        /\ queue' = l.q
        /\ taken' = l.taken
        /\ request_count' = BeginProcessing(l).count
        /\ sent' = BeginProcessing(l).sent
    /\ UNCHANGED <<max_queue_size, join_pc, session, close_pc>>
    /\ UNCHANGED otherThanQueue
    /\ UNCHANGED <<running, unfinished, putters, handle, returned, reply, sets,
                   response, cancelledMidJob, entered, blockedAt>>

\* A worker suspended in queue.get() is woken by a put and takes the oldest job.
WorkerWake(w) ==
    /\ w \in DOMAIN worker_tasks
    /\ worker_tasks[w].pc = "get"
    /\ ~worker_tasks[w].cancel
    /\ queue # <<>>
    /\ worker_tasks' = [worker_tasks EXCEPT ![w] = [pc |-> "proc", job |-> Head(queue), cancel |-> FALSE]]
    /\ taken' = Append(taken, Head(queue))
    /\ queue' = Tail(queue)
    /\ request_count' = SendRequest(request_count, sent, Head(queue)).count
    /\ sent' = SendRequest(request_count, sent, Head(queue)).sent
    /\ UNCHANGED <<max_queue_size, join_pc, session, close_pc>>
    /\ UNCHANGED otherThanQueue
    /\ UNCHANGED <<running, unfinished, putters, handle, returned, reply, sets,
                   response, cancelledMidJob, entered, blockedAt>>

\* How a task goes on after one iteration that ended as r.next says.
AfterIteration(w, r) ==
    IF r.next = "loop" THEN LoopTop(w, queue)
    ELSE [pc |-> IF r.next = "crash" THEN "crashed" ELSE "cancelled",
          job |-> 0, q |-> queue, taken |-> taken]

\* The processing function of worker w completes for the node's response resp;
\* the rest of the iteration and the next loop test run in the same step.
WorkerFinish(w, resp) ==
    /\ w \in DOMAIN worker_tasks
    /\ worker_tasks[w].pc = "proc"
    /\ ~worker_tasks[w].cancel
    /\ LET j == worker_tasks[w].job
           r == WorkIteration(handle[j], ProcessHttp(resp))
           l == AfterIteration(w, r)
       IN /\ handle' = [handle EXCEPT ![j] = r.h]
          /\ sets' = [sets EXCEPT ![j] = @ + r.set]
          /\ response' = [response EXCEPT ![j] = resp]
          /\ unfinished' = unfinished - r.done
          /\ worker_tasks' = SetTask(w, l)
          /\ queue' = l.q
          /\ taken' = l.taken
          /\ request_count' = BeginProcessing(l).count
          /\ sent' = BeginProcessing(l).sent
    /\ UNCHANGED <<max_queue_size, join_pc, session, close_pc>>
    /\ UNCHANGED otherThanQueue
    /\ UNCHANGED <<running, putters, returned, reply, cancelledMidJob, entered, blockedAt>>

\* CancelledError is thrown into a cancelled worker at its suspension point,
\* in the order of the cancel() calls. A task cancelled before its first step
\* never runs its body; in queue.get() no job is bound yet, and an except
\* clause that used `future` there would fail.
WorkerCancelled(w) ==
    /\ w \in DOMAIN worker_tasks
    /\ Live(worker_tasks[w])
    /\ worker_tasks[w].cancel
    /\ \A v \in 1..(w - 1) : ~(Live(worker_tasks[v]) /\ worker_tasks[v].cancel)
    /\ LET t == worker_tasks[w]
           j == t.job
           e == Raise("CancelledError", 0, "")
           r == IF t.pc = "new" THEN [h |-> NoFuture, set |-> 0, done |-> 0, next |-> "reraise"]
                ELSE IF t.pc = "get"
                     THEN [h |-> NoFuture, set |-> 0, done |-> 0,
                           next |-> IF Handler(e.exc) = "reraise" THEN "reraise" ELSE "crash"]
                     ELSE ExceptClause(handle[j], e)
           l == AfterIteration(w, r)
       IN /\ handle' = IF t.pc = "proc" THEN [handle EXCEPT ![j] = r.h] ELSE handle
          /\ sets' = IF t.pc = "proc" THEN [sets EXCEPT ![j] = @ + r.set] ELSE sets
          /\ cancelledMidJob' = IF t.pc = "proc" THEN cancelledMidJob \cup {j} ELSE cancelledMidJob
          /\ unfinished' = unfinished - r.done
          /\ worker_tasks' = SetTask(w, l)
          /\ queue' = l.q
          /\ taken' = l.taken
          /\ request_count' = BeginProcessing(l).count
          /\ sent' = BeginProcessing(l).sent
    /\ UNCHANGED <<max_queue_size, join_pc, session, close_pc>>
    /\ UNCHANGED otherThanQueue
    /\ UNCHANGED <<running, putters, returned, reply, response, entered, blockedAt>>

\* get_raw_transaction resumes once the future of its job is no longer pending.
CallerResume(j) ==
    /\ j \in returned
    /\ reply[j].kind = "none"
    /\ handle[j].state \in {"result", "exception", "cancelled"}
    /\ reply' = [reply EXCEPT ![j] = GetRawTransaction(Await(handle[j]))]
    /\ UNCHANGED <<max_queue_size, join_pc, request_count, sent, session, close_pc>>
    /\ UNCHANGED otherThanQueue
    /\ UNCHANGED <<running, worker_tasks, queue, unfinished, putters, handle,
                   returned, sets, response, cancelledMidJob, entered, taken, blockedAt>>

\* BitcoindClient.close, up to its first suspension: gather() makes a task of
\* session.close() and one of queue.stop(), and the event loop runs their
\* first steps one after the other. stop() has no await and completes in its
\* step; session.close() completes at once or after the connector has closed.
Close ==
    /\ close_pc = "no"
    /\ close_pc' = "gather"
    /\ \E s \in {"closing", "closed"} : session' = s
    /\ running' = FALSE
    /\ worker_tasks' = CancelAll(worker_tasks)
    /\ UNCHANGED <<max_queue_size, join_pc, request_count, sent>>
    /\ UNCHANGED otherThanQueue
    /\ UNCHANGED <<queue, unfinished, putters, handle, returned, reply, sets,
                   response, cancelledMidJob, entered, taken, blockedAt>>

\* session.close() completes.
SessionClosed ==
    /\ session = "closing"
    /\ session' = "closed"
    /\ UNCHANGED <<max_queue_size, join_pc, request_count, sent, close_pc>>
    /\ UNCHANGED otherThanQueue
    /\ UNCHANGED <<running, worker_tasks, queue, unfinished, putters, handle,
                   returned, reply, sets, response, cancelledMidJob, entered,
                   taken, blockedAt>>

\* gather() resumes close() once both of its tasks are done; close() returns.
CloseReturn ==
    /\ close_pc = "gather"
    /\ session = "closed"
    /\ close_pc' = "done"
    /\ UNCHANGED <<max_queue_size, join_pc, request_count, sent, session>>
    /\ UNCHANGED otherThanQueue
    /\ UNCHANGED <<running, worker_tasks, queue, unfinished, putters, handle,
                   returned, reply, sets, response, cancelledMidJob, entered,
                   taken, blockedAt>>

\* WorkQueue.join, up to its first suspension: asyncio.Queue.join returns at
\* once when no put is unfinished and waits for that otherwise.
JoinCall ==
    /\ join_pc = "no"
    /\ join_pc' = IF unfinished = 0 THEN "returned" ELSE "waiting"
    /\ UNCHANGED <<max_queue_size, request_count, sent, session, close_pc>>
    /\ UNCHANGED otherThanQueue
    /\ UNCHANGED <<running, worker_tasks, queue, unfinished, putters, handle,
                   returned, reply, sets, response, cancelledMidJob, entered,
                   taken, blockedAt>>

\* join() resumes once task_done() has brought the unfinished count to zero.
JoinReturn ==
    /\ join_pc = "waiting"
    /\ unfinished = 0
    /\ join_pc' = "returned"
    /\ UNCHANGED <<max_queue_size, request_count, sent, session, close_pc>>
    /\ UNCHANGED otherThanQueue
    /\ UNCHANGED <<running, worker_tasks, queue, unfinished, putters, handle,
                   returned, reply, sets, response, cancelledMidJob, entered,
                   taken, blockedAt>>

\* ------------------------------------------------- txdb.py (DbTxSummary)
\* An entry of the result dict: no entry, None, or a RecordTransactionSummary.
NoEntry == [kind |-> "missing", txid |-> 0, weight |-> 0, inputs |-> 0, outputs |-> 0]
NoneEntry == [kind |-> "None", txid |-> 0, weight |-> 0, inputs |-> 0, outputs |-> 0]
RecordTransactionSummary(t, w, i, o) ==
    [kind |-> "summary", txid |-> t, weight |-> w, inputs |-> i, outputs |-> o]

\* What the node knows of a transaction, as get_raw_transaction(txid, True)
\* decodes it: a coinbase, or a transaction spending one previous output.
NodeTx(shape) ==
    IF shape = "coinbase"
    THEN [coinbase |-> TRUE, weight |-> 4, vout |-> 50, prev |-> 0]
    ELSE [coinbase |-> FALSE, weight |-> 8, vout |-> 3, prev |-> 5]

\* DbTxSummary._compute_tx_summary once the transaction and its inputs are known.
ComputeTxSummary(t, tx) ==
    RecordTransactionSummary(t, tx.weight, IF tx.coinbase THEN tx.vout ELSE tx.prev, tx.vout)

\* The document the cache holds for an id (written by an earlier construction).
CachedSummary(t) == ComputeTxSummary(t, NodeTx("spend"))

\* A construct task: asyncio.create_task(construct_tx_summary(txid)).
ConstructTask(t) == [txid |-> t, pc |-> "new", exc |-> "none", shape |-> "none"]
TaskDone(t) == t.pc \in {"ok", "failed"}

\* any_done() over the list pending
AnyDone == \E i \in 1..Len(pending) : TaskDone(ptasks[pending[i]])

\* pending = [t for t in pending if not t.done()]
Prune(p) == SelectSeq(p, LAMBDA i : ~TaskDone(ptasks[i]))

\* Variant: every id of the batch is constructed, cached or not.
ToConstruct_All(list, recs) == list

\* txid_to_construct = [txid for txid in txid_list if not txid in records]
ToConstruct(list, recs) == SelectSeq(list, LAMBDA t : recs[t].kind = "missing")

\* `if len(pending) > 1000`: the admission test before a task is appended.
TooManyPending(p) == Len(p) > MaxPending

\* The state at the call of process(txid_list): the batch is a duplicate-free
\* list of ids (the ids of the tx_log collection, or of the node's mempool),
\* and the cache holds summaries of any subset of them.
PInit ==
    /\ ppc = "fetch"
    /\ txid_list \in {[i \in 1..n |-> i] : n \in 0..MaxTxids}
    /\ store \in SUBSET Txids
    /\ records = [t \in Txids |-> NoEntry]
    /\ to_load = txid_list
    /\ txid_to_construct = <<>>
    /\ idx = 1
    /\ pending = <<>>
    /\ ptasks = <<>>
    /\ found = {}
    /\ rpcBy = [t \in Txids |-> 0]
    /\ insertsBy = [t \in Txids |-> 0]

\* process() is not running (the WorkQueue specification).
PIdle ==
    /\ ppc = "idle"
    /\ txid_list = <<>>
    /\ store = {}
    /\ records = [t \in Txids |-> NoEntry]
    /\ to_load = <<>>
    /\ txid_to_construct = <<>>
    /\ idx = 1
    /\ pending = <<>>
    /\ ptasks = <<>>
    /\ found = {}
    /\ rpcBy = [t \in Txids |-> 0]
    /\ insertsBy = [t \in Txids |-> 0]

Take(seq, n) == SubSeq(seq, 1, IF n < Len(seq) THEN n ELSE Len(seq))
Drop(seq, n) == SubSeq(seq, (IF n < Len(seq) THEN n ELSE Len(seq)) + 1, Len(seq))
Range(seq) == {seq[i] : i \in 1..Len(seq)}

\* One cache query: find({"_id": {"$in": queue_ids_to_load[:100000]}}) and the
\* loop over its cursor; after the last one the ids to construct are computed.
PFetch ==
    /\ ppc = "fetch"
    /\ LET hits == Range(Take(to_load, FetchChunk)) \cap store
           recs == [t \in Txids |-> IF t \in hits THEN CachedSummary(t) ELSE records[t]]
           rest == Drop(to_load, FetchChunk)
       IN /\ records' = recs
          /\ found' = found \cup hits
          /\ to_load' = rest
          /\ IF rest = <<>>
             THEN /\ ppc' = "loop"
                  /\ txid_to_construct' = ToConstruct(txid_list, recs)
             ELSE UNCHANGED <<ppc, txid_to_construct>>
    /\ UNCHANGED otherThanProcess
    /\ UNCHANGED <<txid_list, store, idx, pending, ptasks, rpcBy, insertsBy>>

\* pending.append(asyncio.create_task(construct_tx_summary(txid))) after the
\* prune (when one ran), and the loop moves to the next id.
Submit(p) ==
    /\ ptasks' = Append(ptasks, ConstructTask(txid_to_construct[idx]))
    /\ pending' = Append(p, Len(ptasks) + 1)
    /\ idx' = idx + 1

\* One iteration of `for txid in txid_to_construct`, which runs without
\* suspending unless the admission test finds no pending task done.
PIter ==
    /\ ppc = "loop"
    /\ IF idx > Len(txid_to_construct)
       THEN /\ ppc' = "gather"
            /\ UNCHANGED <<pending, ptasks, idx>>
       ELSE IF TooManyPending(pending)
            THEN IF AnyDone
                 THEN Submit(Prune(pending)) /\ UNCHANGED ppc
                 ELSE ppc' = "sleep" /\ UNCHANGED <<pending, ptasks, idx>>
            ELSE Submit(pending) /\ UNCHANGED ppc
    /\ UNCHANGED otherThanProcess
    /\ UNCHANGED <<txid_list, store, records, to_load, txid_to_construct, found,
                   rpcBy, insertsBy>>

\* asyncio.sleep(0.1) returns and any_done() holds: prune, append, go on.
PWake ==
    /\ ppc = "sleep"
    /\ AnyDone
    /\ Submit(Prune(pending))
    /\ ppc' = "loop"
    /\ UNCHANGED otherThanProcess
    /\ UNCHANGED <<txid_list, store, records, to_load, txid_to_construct, found,
                   rpcBy, insertsBy>>

\* Variant: process() does not wait for the pending tasks before returning.
PGather_NoWait ==
    /\ ppc = "gather"
    /\ ppc' = "returned"
    /\ UNCHANGED otherThanProcess
    /\ UNCHANGED <<txid_list, store, records, to_load, txid_to_construct, idx,
                   pending, ptasks, found, rpcBy, insertsBy>>

\* await asyncio.gather(*pending): raises the first exception of a task of the
\* list as soon as there is one, returns once all of them are done.
PGather ==
    /\ ppc = "gather"
    /\ IF \E i \in 1..Len(pending) : ptasks[pending[i]].pc = "failed"
       THEN ppc' = "raised"
       ELSE /\ \A i \in 1..Len(pending) : ptasks[pending[i]].pc = "ok"
            /\ ppc' = "returned"
    /\ UNCHANGED otherThanProcess
    /\ UNCHANGED <<txid_list, store, records, to_load, txid_to_construct, idx,
                   pending, ptasks, found, rpcBy, insertsBy>>

\* Construct tasks run only while process() is suspended (or has ended).
Suspended == ppc \in {"sleep", "gather", "returned", "raised"}

SetPTask(i, pc, exc, shape) ==
    [ptasks EXCEPT ![i] = [txid |-> ptasks[i].txid, pc |-> pc, exc |-> exc, shape |-> shape]]

\* construct_tx_summary starts: _compute_tx_summary issues the RPC lookup.
TStart(i) ==
    /\ Suspended
    /\ i \in DOMAIN ptasks
    /\ ptasks[i].pc = "new"
    /\ ptasks' = SetPTask(i, "rpc", "none", "none")
    /\ rpcBy' = [rpcBy EXCEPT ![ptasks[i].txid] = @ + 1]
    /\ UNCHANGED otherThanProcess
    /\ UNCHANGED <<ppc, txid_list, store, records, to_load, txid_to_construct, idx,
                   pending, found, insertsBy>>

\* get_raw_transaction(txid, True) completes: the transaction (a coinbase, or
\* one whose input must be looked up), None, or a failure.
RpcAnswers == {"coinbase", "spend", "None", "error"}

TRpc(i, ans) ==
    /\ Suspended
    /\ i \in DOMAIN ptasks
    /\ ptasks[i].pc = "rpc"
    /\ LET t == ptasks[i].txid IN
       CASE ans = "error" ->
              /\ ptasks' = SetPTask(i, "failed", "BitcoindHttpException", "none")
              /\ UNCHANGED <<records, rpcBy, insertsBy>>
         [] ans = "None" ->
              /\ ptasks' = SetPTask(i, "ok", "none", "none")
              /\ records' = [records EXCEPT ![t] = NoneEntry]
              /\ UNCHANGED <<rpcBy, insertsBy>>
         [] ans = "coinbase" ->
              /\ ptasks' = SetPTask(i, "insert", "none", ans)
              /\ records' = [records EXCEPT ![t] = ComputeTxSummary(t, NodeTx(ans))]
              /\ insertsBy' = [insertsBy EXCEPT ![t] = @ + 1]
              /\ UNCHANGED rpcBy
         [] ans = "spend" ->
              /\ ptasks' = SetPTask(i, "rpc_in", "none", ans)
              /\ rpcBy' = [rpcBy EXCEPT ![t] = @ + 1]
              /\ UNCHANGED <<records, insertsBy>>
    /\ UNCHANGED otherThanProcess
    /\ UNCHANGED <<ppc, txid_list, store, to_load, txid_to_construct, idx,
                   pending, found>>

\* The lookup of the input's transaction in _compute_input_sum completes:
\* found, None (subscripting None raises TypeError), or a failure.
InputAnswers == {"found", "None", "error"}

TRpcIn(i, ans) ==
    /\ Suspended
    /\ i \in DOMAIN ptasks
    /\ ptasks[i].pc = "rpc_in"
    /\ LET t == ptasks[i].txid IN
       CASE ans = "error" ->
              /\ ptasks' = SetPTask(i, "failed", "BitcoindHttpException", "none")
              /\ UNCHANGED <<records, insertsBy>>
         [] ans = "None" ->
              /\ ptasks' = SetPTask(i, "failed", "TypeError", "none")
              /\ UNCHANGED <<records, insertsBy>>
         [] ans = "found" ->
              /\ ptasks' = SetPTask(i, "insert", "none", ptasks[i].shape)
              /\ records' = [records EXCEPT ![t] = ComputeTxSummary(t, NodeTx(ptasks[i].shape))]
              /\ insertsBy' = [insertsBy EXCEPT ![t] = @ + 1]
    /\ UNCHANGED otherThanProcess
    /\ UNCHANGED <<ppc, txid_list, store, to_load, txid_to_construct, idx,
                   pending, found, rpcBy>>

\* collection.insert_one(doc): a document with this _id exists already and the
\* store raises DuplicateKeyError, or the document is stored.
InsertOne(docs, t) ==
    IF t \in docs
    THEN [docs |-> docs, exc |-> "DuplicateKeyError"]
    ELSE [docs |-> docs \cup {t}, exc |-> "none"]

TInsert(i) ==
    /\ Suspended
    /\ i \in DOMAIN ptasks
    /\ ptasks[i].pc = "insert"
    /\ LET r == InsertOne(store, ptasks[i].txid) IN
        /\ store' = r.docs
        /\ ptasks' = SetPTask(i, IF r.exc = "none" THEN "ok" ELSE "failed", r.exc, ptasks[i].shape)
    /\ UNCHANGED otherThanProcess
    /\ UNCHANGED <<ppc, txid_list, records, to_load, txid_to_construct, idx,
                   pending, found, rpcBy, insertsBy>>

\* An overlapping process() call (the collection is shared between calls and
\* between runs of the program) stores the summary of an id of this batch.
OtherInsert(t) ==
    /\ ppc \notin {"idle", "returned", "raised"}
    /\ t \in Range(txid_list)
    /\ t \notin store
    /\ store' = store \cup {t}
    /\ UNCHANGED otherThanProcess
    /\ UNCHANGED <<ppc, txid_list, records, to_load, txid_to_construct, idx,
                   pending, ptasks, found, rpcBy, insertsBy>>

PNext ==
    \/ PFetch
    \/ PIter
    \/ PWake
    \/ PGather
    \/ \E i \in 1..MaxTxids : TStart(i)
    \/ \E i \in 1..MaxTxids, ans \in RpcAnswers : TRpc(i, ans)
    \/ \E i \in 1..MaxTxids, ans \in InputAnswers : TRpcIn(i, ans)
    \/ \E i \in 1..MaxTxids : TInsert(i)
    \/ \E t \in Txids : OtherInsert(t)

QNext ==
    \/ Start
    \/ Stop
    \/ \E j \in Jobs : EnqueueCall(j)
    \/ \E j \in Jobs : EnqueueResume(j)
    \/ \E j \in Jobs : CancelHandle(j)
    \/ JoinCall
    \/ JoinReturn
    \/ \E w \in 1..(MaxStarts * Workers) : WorkerBegin(w)
    \/ \E w \in 1..(MaxStarts * Workers) : WorkerWake(w)
    \/ \E w \in 1..(MaxStarts * Workers), resp \in Responses : WorkerFinish(w, resp)
    \/ \E w \in 1..(MaxStarts * Workers) : WorkerCancelled(w)

\* BitcoindClient.__init__: the queue is created and started.
RpcInit ==
    /\ max_queue_size = MaxQueueSize
    /\ running = TRUE
    /\ worker_tasks = StartTasks(Workers)
    /\ queue = <<>>
    /\ unfinished = 0
    /\ putters = {}
    /\ handle = [j \in Jobs |-> NoFuture]
    /\ returned = {}
    /\ reply = [j \in Jobs |-> NoOutcome]
    /\ join_pc = "no"
    /\ request_count = 0
    /\ session = "open"
    /\ close_pc = "no"
    /\ sent = <<>>
    /\ sets = [j \in Jobs |-> 0]
    /\ response = [j \in Jobs |-> NoResponse]
    /\ cancelledMidJob = {}
    /\ entered = <<>>
    /\ taken = <<>>
    /\ blockedAt = [j \in Jobs |-> -1]

\* get_raw_transaction calls through the gateway: _enqueue_http, the workers
\* running _process_http on the node's responses, and the callers resuming.
RpcNext ==
    \/ \E j \in Jobs : EnqueueCall(j)
    \/ \E j \in Jobs : EnqueueResume(j)
    \/ \E w \in 1..Workers : WorkerBegin(w)
    \/ \E w \in 1..Workers : WorkerWake(w)
    \/ \E w \in 1..Workers, resp \in RpcResponses : WorkerFinish(w, resp)
    \/ \E j \in Jobs : CallerResume(j)

\* The same client with its pool of RpcWorkers worker tasks and a channel that
\* holds every job, so that several jobs wait and several requests are
\* outstanding at once; queue.put never suspends there.
PoolInit ==
    /\ max_queue_size = PoolQueueSize
    /\ running = TRUE
    /\ worker_tasks = StartTasks(RpcWorkers)
    /\ queue = <<>>
    /\ unfinished = 0
    /\ putters = {}
    /\ handle = [j \in Jobs |-> NoFuture]
    /\ returned = {}
    /\ reply = [j \in Jobs |-> NoOutcome]
    /\ join_pc = "no"
    /\ request_count = 0
    /\ session = "open"
    /\ close_pc = "no"
    /\ sent = <<>>
    /\ sets = [j \in Jobs |-> 0]
    /\ response = [j \in Jobs |-> NoResponse]
    /\ cancelledMidJob = {}
    /\ entered = <<>>
    /\ taken = <<>>
    /\ blockedAt = [j \in Jobs |-> -1]

PoolNext ==
    \/ \E j \in Jobs : EnqueueCall(j)
    \/ \E j \in Jobs : CancelHandle(j)
    \/ \E w \in 1..RpcWorkers : WorkerBegin(w)
    \/ \E w \in 1..RpcWorkers : WorkerWake(w)
    \/ \E w \in 1..RpcWorkers, resp \in Responses : WorkerFinish(w, resp)
    \/ \E j \in Jobs : CallerResume(j)

\* The gateway until and after close().
CloseNext ==
    \/ PoolNext
    \/ Close
    \/ SessionClosed
    \/ CloseReturn
    \/ \E w \in 1..RpcWorkers : WorkerCancelled(w)

\* ------------------------------------------------- flow.py: FeeBuckets
\* Weights are Python numbers: integers (WU) until divide() applies "/=", which
\* gives the true quotient. A weight is kept as the fraction num/den in lowest
\* terms, so that equal weights are equal values.
RECURSIVE Gcd(_, _)
Gcd(a, b) == IF b = 0 THEN a ELSE Gcd(b, a % b)
Number(n, d) ==
    IF n = 0 THEN [num |-> 0, den |-> 1]
    ELSE [num |-> n \div Gcd(n, d), den |-> d \div Gcd(n, d)]
Plus(a, b) == Number(a.num * b.den + b.num * a.den, a.den * b.den)
Quotient(a, k) == Number(a.num, a.den * k)
Zero == Number(0, 1)

\* The weights callers write, the factors they divide by, and the fee rates
\* they address (one below MIN_FEE_RATE to one above MAX_FEE_RATE).
Weights == {Number(w, 1) : w \in 0..2}
Factors == 0..2
FeeRates == (MIN_FEE_RATE - 1)..(MAX_FEE_RATE + 1)

\* FeeBuckets.__init__: self._buckets = {}
EmptyBuckets == [k \in {} |-> Zero]

\* A plausible slip: the upper bound is not applied.
normalize_NoMax(fee_rate) ==
    IF fee_rate > MIN_FEE_RATE THEN fee_rate ELSE MIN_FEE_RATE

\* FeeBuckets._normalize: min(fee_rate, MAX_FEE_RATE), then max(.., MIN_FEE_RATE).
normalize(fee_rate) ==
    LET capped == IF fee_rate < MAX_FEE_RATE THEN fee_rate ELSE MAX_FEE_RATE
    IN  IF capped > MIN_FEE_RATE THEN capped ELSE MIN_FEE_RATE

\* FeeBuckets.__contains__
contains(b, fee_rate) ==
    LET k == normalize(fee_rate)
    IN  k \in DOMAIN b /\ b[k].num > 0

\* FeeBuckets.__getitem__: a missing key reads as 0.
getitem(b, fee_rate) ==
    LET k == normalize(fee_rate)
    IN  IF k \in DOMAIN b THEN b[k] ELSE Zero

\* FeeBuckets.__setitem__: "del self._buckets[fee_rate]" raises KeyError when
\* the key is not stored. The result is the error and the dict afterwards.
setitem(b, fee_rate, value) ==
    LET k == normalize(fee_rate)
    IN  IF value = Zero
        THEN IF k \in DOMAIN b
             THEN [err |-> "none", buckets |-> [x \in DOMAIN b \ {k} |-> b[x]]]
             ELSE [err |-> "KeyError", buckets |-> b]
        ELSE [err |-> "none",
              buckets |-> [x \in DOMAIN b \cup {k} |-> IF x = k THEN value ELSE b[x]]]

\* The loop "for k in self._buckets: if cond(k): value += self._buckets[k]".
RECURSIVE SumWhere(_, _)
SumWhere(b, keys) ==
    IF keys = {} THEN Zero
    ELSE LET k == CHOOSE x \in keys : TRUE
         IN  Plus(b[k], SumWhere(b, keys \ {k}))

\* FeeBuckets.sum
sum(b) == SumWhere(b, DOMAIN b)

\* A plausible slip: "k > threshold".
get_aggregate_sup_Strict(b, threshold) ==
    SumWhere(b, {k \in DOMAIN b : k > threshold})

\* FeeBuckets.get_aggregate_sup: the threshold is compared as given.
get_aggregate_sup(b, threshold) ==
    SumWhere(b, {k \in DOMAIN b : k >= threshold})

\* FeeBuckets.max_fee_rate
max_fee_rate(b) ==
    IF DOMAIN b = {} THEN 0
    ELSE CHOOSE k \in DOMAIN b : \A x \in DOMAIN b : x <= k

\* bucket[r] += w, which Python runs as bucket[r] = bucket[r] + w.
accumulate(b, fee_rate, w) == setitem(b, fee_rate, Plus(getitem(b, fee_rate), w))

\* FeeBuckets.add: "for k in other._buckets: self[k] += other[k]"; the first
\* error ends the loop.
RECURSIVE AddKeys(_, _, _)
AddKeys(b, other, keys) ==
    IF keys = {} THEN [err |-> "none", buckets |-> b]
    ELSE LET k == CHOOSE x \in keys : \A y \in keys : x <= y
             r == accumulate(b, k, getitem(other, k))
         IN  IF r.err # "none" THEN r ELSE AddKeys(r.buckets, other, keys \ {k})
add(b, other) == AddKeys(b, other, DOMAIN other)

\* FeeBuckets.divide: "self._buckets[k] /= factor" for every key; with a key
\* stored, a factor of 0 raises ZeroDivisionError at the first one.
divide(b, factor) ==
    IF DOMAIN b = {} THEN [err |-> "none", buckets |-> b]
    ELSE IF factor = 0 THEN [err |-> "ZeroDivisionError", buckets |-> b]
    ELSE [err |-> "none", buckets |-> [k \in DOMAIN b |-> Quotient(b[k], factor)]]

\* The other FeeBuckets objects add() is given: built by writes, so with keys in
\* range and positive weights.
OtherBuckets ==
    {[k \in S |-> Number(1, 1)] : S \in {T \in SUBSET (MIN_FEE_RATE..MAX_FEE_RATE) : Cardinality(T) <= 2}}

\* The fee rate an operation on fee rate r is about, stated without _normalize.
Clamp(r) ==
    IF r < MIN_FEE_RATE THEN MIN_FEE_RATE
    ELSE IF r > MAX_FEE_RATE THEN MAX_FEE_RATE ELSE r

NoOp == [op |-> "none", rate |-> 0, value |-> Zero, before |-> Zero, err |-> "none"]
Op(o, r, v, bf, e) == [op |-> o, rate |-> r, value |-> v, before |-> bf, err |-> e]

\* A fresh FeeBuckets object.
BInit ==
    /\ buckets = EmptyBuckets
    /\ ledger = [k \in MIN_FEE_RATE..MAX_FEE_RATE |-> Zero]
    /\ lastop = NoOp
    /\ nops = 0

\* bucket[fee_rate] = value
BWrite(fee_rate, value) ==
    /\ nops < MaxOps
    /\ LET r == setitem(buckets, fee_rate, value)
       IN  /\ buckets' = r.buckets
           /\ lastop' = Op("write", fee_rate, value, getitem(buckets, fee_rate), r.err)
    /\ ledger' = [ledger EXCEPT ![Clamp(fee_rate)] = value]
    /\ nops' = nops + 1
    /\ UNCHANGED otherThanBuckets

\* bucket[fee_rate] += w
BAccumulate(fee_rate, w) ==
    /\ nops < MaxOps
    /\ LET r == accumulate(buckets, fee_rate, w)
       IN  /\ buckets' = r.buckets
           /\ lastop' = Op("accumulate", fee_rate, w, getitem(buckets, fee_rate), r.err)
    /\ ledger' = [ledger EXCEPT ![Clamp(fee_rate)] = Plus(@, w)]
    /\ nops' = nops + 1
    /\ UNCHANGED otherThanBuckets

\* bucket.add(other)
BAdd(other) ==
    /\ nops < MaxOps
    /\ LET r == add(buckets, other)
       IN  /\ buckets' = r.buckets
           /\ lastop' = Op("add", 0, sum(other), sum(buckets), r.err)
    /\ ledger' = [k \in DOMAIN ledger |->
                    IF k \in DOMAIN other THEN Plus(ledger[k], other[k]) ELSE ledger[k]]
    /\ nops' = nops + 1
    /\ UNCHANGED otherThanBuckets

\* bucket.divide(factor)
BDivide(factor) ==
    /\ nops < MaxOps
    /\ LET r == divide(buckets, factor)
       IN  /\ buckets' = r.buckets
           /\ lastop' = Op("divide", 0, Number(factor, 1), sum(buckets), r.err)
           /\ ledger' = IF r.err = "none" /\ factor # 0
                        THEN [k \in DOMAIN ledger |-> Quotient(ledger[k], factor)]
                        ELSE ledger
    /\ nops' = nops + 1
    /\ UNCHANGED otherThanBuckets

BNext ==
    \/ \E r \in FeeRates, w \in Weights : BWrite(r, w)
    \/ \E r \in FeeRates, w \in Weights : BAccumulate(r, w)
    \/ \E o \in OtherBuckets : BAdd(o)
    \/ \E f \in Factors : BDivide(f)

\* No FeeBuckets object is in use (the other specifications).
BIdle ==
    /\ buckets = EmptyBuckets
    /\ ledger = [k \in MIN_FEE_RATE..MAX_FEE_RATE |-> Zero]
    /\ lastop = NoOp
    /\ nops = MaxOps

\* ------------------------------------------- flow.py: the block model
\* The windows a caller asks for, in minutes.
Windows == {TARGET_BLOCK_TIME_MINUTES * i : i \in 1..MaxWindow}
\* Target probabilities 0.1, 0.2, ..., 1.0, in tenths.
Probabilities == 1..10
Calls == 1..2

\* scipy.stats.poisson(expected).cdf and the constant 1 it is subtracted from,
\* both multiplied by PoissonTerms! * e^expected: the k-th term of the series
\* of e^expected is expected^k / k!, and the series is cut after PoissonTerms.
RECURSIVE Factorial(_)
Factorial(n) == IF n = 0 THEN 1 ELSE n * Factorial(n - 1)
RECURSIVE SeriesTerm(_, _)
SeriesTerm(expected, k) ==
    IF k = 0 THEN Factorial(PoissonTerms)
    ELSE (SeriesTerm(expected, k - 1) * expected) \div k
RECURSIVE Series(_, _)
Series(expected, k) ==
    IF k < 0 THEN 0
    ELSE SeriesTerm(expected, k) + Series(expected, k - 1)
PoissonCdf(expected, k) ==
    [num |-> Series(expected, IF k < PoissonTerms THEN k ELSE PoissonTerms),
     den |-> Series(expected, PoissonTerms)]

\* A plausible slip: the probability of at least *blocks* blocks.
get_prob_of_min_blocks_AtLeast(m, k) ==
    LET cdf == PoissonCdf(m \div TARGET_BLOCK_TIME_MINUTES, k - 1)
    IN  [num |-> cdf.den - cdf.num, den |-> cdf.den]

\* get_prob_of_min_blocks: 1 - poisson(minutes / 10).cdf(blocks), as a fraction.
get_prob_of_min_blocks(m, k) ==
    LET cdf == PoissonCdf(m \div TARGET_BLOCK_TIME_MINUTES, k)
    IN  [num |-> cdf.den - cdf.num, den |-> cdf.den]

\* The function is pure: its values for the windows and block counts the loop
\* can reach, computed once.
ProbOfMinBlocks ==
    [m \in Windows |-> [k \in 0..(PoissonTerms + 1) |-> get_prob_of_min_blocks(m, k)]]

\* "prob < target_prob", the target in tenths.
ProbBelow(prob, tenths) == prob.num * 10 < tenths * prob.den

\* A plausible slip: the probability is compared with 1 - target_prob.
LoopBreaks_Complement(m, tenths, k) ==
    ProbBelow(get_prob_of_min_blocks(m, k), 10 - tenths)

\* The test that ends the loop of get_min_expected_blocks.
LoopBreaks(m, tenths, k) == ProbBelow(ProbOfMinBlocks[m][k], tenths)

\* get_min_expected_blocks: blocks = 0; while True: break if prob < target_prob,
\* else blocks += 1.
RECURSIVE MinBlocksFrom(_, _, _)
MinBlocksFrom(m, tenths, k) ==
    IF LoopBreaks(m, tenths, k) THEN k ELSE MinBlocksFrom(m, tenths, k + 1)
\* The function is pure: its value for every window and probability, computed once.
MinExpectedBlocks ==
    [m \in Windows |-> [tenths \in Probabilities |-> MinBlocksFrom(m, tenths, 0)]]
get_min_expected_blocks(m, tenths) == MinExpectedBlocks[m][tenths]

\* Two calls of get_min_expected_blocks for one window.
KInit ==
    /\ minutes \in Windows
    /\ target_prob \in [Calls -> Probabilities]
    /\ blocks = [c \in Calls |-> 0]
    /\ returned_blocks = [c \in Calls |-> FALSE]

\* One pass of the while loop of call c.
KIterate(c) ==
    /\ ~returned_blocks[c]
    /\ IF LoopBreaks(minutes, target_prob[c], blocks[c])
       THEN /\ returned_blocks' = [returned_blocks EXCEPT ![c] = TRUE]
            /\ UNCHANGED blocks
       ELSE /\ blocks' = [blocks EXCEPT ![c] = @ + 1]
            /\ UNCHANGED returned_blocks
    /\ UNCHANGED <<minutes, target_prob>>
    /\ UNCHANGED otherThanBlocks

KNext == \E c \in Calls : KIterate(c)

\* No call of get_min_expected_blocks is observed (the other specifications).
KIdle ==
    /\ minutes = TARGET_BLOCK_TIME_MINUTES
    /\ target_prob = [c \in Calls |-> 10]
    /\ blocks = [c \in Calls |-> 0]
    /\ returned_blocks = [c \in Calls |-> TRUE]

\* ------------------------------------------ flow.py: the estimation engine
\* A fee rate estimate: an integer or float('inf').
Finite(r) == [inf |-> FALSE, rate |-> r]
POSITIVE_INFINITY == [inf |-> TRUE, rate |-> 0]
\* Python's min(a, b) and a <= b on estimates.
AtMost(a, b) == b.inf \/ (~a.inf /\ a.rate <= b.rate)
MinOf(a, b) == IF AtMost(b, a) /\ ~AtMost(a, b) THEN b ELSE a

\* A plausible slip: "end_weight < 0".
compute_bucket_Strict(m, confidence, start_weight, weight_incr_rate_per_min) ==
    LET lost == BLOCK_CAPACITY_WU * get_min_expected_blocks(m, confidence)
    IN  start_weight.num * weight_incr_rate_per_min.den
          + weight_incr_rate_per_min.num * m * start_weight.den
          - lost * start_weight.den * weight_incr_rate_per_min.den < 0

\* compute_bucket: start_weight + rate * minutes - capacity * blocks <= 0, the
\* two weights being fractions.
compute_bucket(m, confidence, start_weight, weight_incr_rate_per_min) ==
    LET lost == BLOCK_CAPACITY_WU * get_min_expected_blocks(m, confidence)
    IN  start_weight.num * weight_incr_rate_per_min.den
          + weight_incr_rate_per_min.num * m * start_weight.den
          - lost * start_weight.den * weight_incr_rate_per_min.den <= 0

\* max(a, b) on integers.
Larger(a, b) == IF a >= b THEN a ELSE b

\* A plausible slip: only the mempool's largest key is taken.
MaxFeeRateOfAll_MempoolOnly(mp, fl) == max_fee_rate(mp)

\* Lines 202-203: the largest key over all flows and the mempool.
MaxFeeRateOfAll(mp, fl) ==
    LET in_flow == CHOOSE k \in {max_fee_rate(fl[x]) : x \in DOMAIN fl} :
                       \A y \in DOMAIN fl : max_fee_rate(fl[y]) <= k
    IN  Larger(max_fee_rate(mp), in_flow)

\* Lines 212-228: "for fee_rate in range(1, max_fee_rate+2)", leaving at the
\* first fee rate whose simulation empties the bucket.
RECURSIVE SearchFrom(_, _, _, _, _, _)
SearchFrom(mp, fl, m, confidence, fee_rate, last) ==
    IF fee_rate > last THEN POSITIVE_INFINITY
    ELSE IF compute_bucket(m, confidence, get_aggregate_sup(mp, fee_rate),
                           get_aggregate_sup(fl[m], fee_rate))
         THEN MinOf(POSITIVE_INFINITY, Finite(fee_rate))
         ELSE SearchFrom(mp, fl, m, confidence, fee_rate + 1, last)

Confidences(list) == {list[i] : i \in 1..Len(list)}

\* Lines 207-228: the table before the correction.
EstimateTable(mp, fl, targets) ==
    [m \in {targets[i] : i \in 1..Len(targets)} |->
        [c \in Confidences(TARGETS_CONFIDENCE) |->
            SearchFrom(mp, fl, m, c, 1, MaxFeeRateOfAll(mp, fl) + 1)]]

\* A plausible slip: the running minimum is not written back.
correction_decreasing_fees_NoWrite(estimates, list_windows, list_confidence) ==
    estimates

\* A plausible slip: min_value is set to the window's own value instead of
\* the minimum.
RECURSIVE CorrectFrom_NoCarry(_, _, _, _, _)
CorrectFrom_NoCarry(estimates, list_windows, confidence, i, min_value) ==
    IF i > Len(list_windows) THEN estimates
    ELSE LET delay == list_windows[i]
             lower == MinOf(min_value, estimates[delay][confidence])
         IN  CorrectFrom_NoCarry([estimates EXCEPT ![delay][confidence] = lower],
                                 list_windows, confidence, i + 1,
                                 estimates[delay][confidence])

\* correction_decreasing_fees, the inner loop for one confidence: from position
\* i of list_windows on, with min_value the running minimum.
RECURSIVE CorrectFrom(_, _, _, _, _)
CorrectFrom(estimates, list_windows, confidence, i, min_value) ==
    IF i > Len(list_windows) THEN estimates
    ELSE LET delay == list_windows[i]
             lower == MinOf(min_value, estimates[delay][confidence])
         IN  CorrectFrom([estimates EXCEPT ![delay][confidence] = lower],
                         list_windows, confidence, i + 1, lower)

RECURSIVE CorrectConfidences(_, _, _, _)
CorrectConfidences(estimates, list_windows, list_confidence, j) ==
    IF j > Len(list_confidence) THEN estimates
    ELSE CorrectConfidences(
             CorrectFrom(estimates, list_windows, list_confidence[j], 1, POSITIVE_INFINITY),
             list_windows, list_confidence, j + 1)

\* correction_decreasing_fees
correction_decreasing_fees(estimates, list_windows, list_confidence) ==
    CorrectConfidences(estimates, list_windows, list_confidence, 1)

\* The lists of windows a caller passes: one or two distinct windows, in any order.
TargetLists ==
    {<<a>> : a \in Windows} \cup {p \in Windows \X Windows : p[1] # p[2]}

\* The mempool buckets explored: at most two fee rates, 1,000,000 or 5,000,000 WU each.
MempoolBuckets ==
    UNION {[S -> {Number(1000000, 1), Number(5000000, 1)}] :
             S \in {T \in SUBSET (MIN_FEE_RATE..MAX_FEE_RATE) : Cardinality(T) <= 2}}
\* The flow buckets explored: nothing, or 500,000 WU per minute at one fee rate.
FlowBuckets ==
    {EmptyBuckets} \cup {[k \in {r} |-> Number(500000, 1)] : r \in MIN_FEE_RATE..MAX_FEE_RATE}

NoTable == [m \in {} |-> 0]

\* The call compute_estimates_by_minute(mempool, flow, targets_minute): flow has
\* one bucket per window of targets_minute.
EInit ==
    /\ targets_minute \in TargetLists
    /\ mempool \in MempoolBuckets
    /\ flow \in [{targets_minute[i] : i \in 1..Len(targets_minute)} -> FlowBuckets]
    /\ output = NoTable
    /\ given_confidence = TARGETS_CONFIDENCE
    /\ uncorrected = NoTable
    /\ epc = "start"

\* Lines 202-228.
ECompute ==
    /\ epc = "start"
    /\ output' = EstimateTable(mempool, flow, targets_minute)
    /\ epc' = "computed"
    /\ UNCHANGED <<mempool, flow, targets_minute, given_confidence, uncorrected>>
    /\ UNCHANGED otherThanEstimate

\* Lines 231-233.
ECorrect ==
    /\ epc = "computed"
    /\ output' = correction_decreasing_fees(output, targets_minute, given_confidence)
    /\ uncorrected' = output
    /\ epc' = "returned"
    /\ UNCHANGED <<mempool, flow, targets_minute, given_confidence>>
    /\ UNCHANGED otherThanEstimate

ENext == ECompute \/ ECorrect

\* A call correction_decreasing_fees(estimates, list_windows, list_confidence)
\* on any table over two confidences: up to MaxListed distinct windows in any
\* order, each estimate a fee rate or float('inf'), one or both confidences
\* listed.
EstimateValues == {Finite(1), Finite(2), POSITIVE_INFINITY}
WindowLists ==
    {l \in UNION {[1..n -> Windows] : n \in 1..MaxListed} :
        \A i, j \in DOMAIN l : i # j => l[i] # l[j]}
ConfidenceLists == {<<TARGETS_CONFIDENCE[1]>>, <<TARGETS_CONFIDENCE[2], TARGETS_CONFIDENCE[1]>>}
TInit ==
    /\ targets_minute \in WindowLists
    /\ given_confidence \in ConfidenceLists
    /\ output \in [{targets_minute[i] : i \in 1..Len(targets_minute)} ->
                      [{TARGETS_CONFIDENCE[1], TARGETS_CONFIDENCE[2]} -> EstimateValues]]
    /\ uncorrected = NoTable
    /\ mempool = EmptyBuckets
    /\ flow = NoTable
    /\ epc = "computed"

\* compute_estimates_by_minute is not running (the other specifications).
EIdle ==
    /\ targets_minute = <<>>
    /\ mempool = EmptyBuckets
    /\ flow = NoTable
    /\ output = NoTable
    /\ given_confidence = <<>>
    /\ uncorrected = NoTable
    /\ epc = "idle"

\* ------------------------------- txdb.py: DbTxSummary._compute_tx_summary
\* Amounts are in satoshis: int(constants.COIN * value) of the node's value in
\* BTC (the rounding of that float product is outside the model).
\* An input of a decoded transaction: {"coinbase": ...} without a reference, or
\* {"txid": ..., "vout": ...} referring to output vout of transaction txid.
CoinbaseInput == [coinbase |-> TRUE, txid |-> "none", vout |-> 0]
RefInput(t, n) == [coinbase |-> FALSE, txid |-> t, vout |-> n]

\* The outputs (satoshis) of the transactions the inputs can refer to.
PrevVout == [t \in {"a", "b"} |-> IF t = "a" THEN <<5, 2>> ELSE <<7>>]
Inputs ==
    {CoinbaseInput} \cup {RefInput(t, n) : t \in {"a"}, n \in 1..2} \cup {RefInput("b", 1)}

\* Sequences of 1..n elements of S.
SeqsUpTo(S, n) == UNION {[1..k -> S] : k \in 1..n}

\* The transactions the node can hold for the txid: weight, vin, vout.
NodeTxs ==
    {[weight |-> 4, vin |-> i, vout |-> o] :
        i \in SeqsUpTo(Inputs, MaxInputs), o \in SeqsUpTo({1, 50}, 2)}

RECURSIVE SumSeq(_, _)
SumSeq(seq, i) == IF i > Len(seq) THEN 0 ELSE seq[i] + SumSeq(seq, i + 1)

\* DbTxSummary._compute_output_sum
compute_output_sum(t) == SumSeq(t.vout, 1)

\* A plausible slip: any input without a reference makes the transaction a coinbase.
is_coinbase_Any(t) == \E i \in 1..Len(t.vin) : t.vin[i].coinbase

\* DbTxSummary._is_coinbase: "coinbase" in tx["vin"][0]
is_coinbase(t) == t.vin[1].coinbase

\* The second loop of _compute_input_sum: input_sum += input_txs[iid]["vout"][n].
\* Every input shares the entry of its txid, the one stored last.
InputTx(t, looked, i) ==
    LET last == CHOOSE j \in DOMAIN looked :
                    /\ t.vin[j].txid = t.vin[i].txid
                    /\ \A k \in DOMAIN looked : t.vin[k].txid = t.vin[i].txid => k <= j
    IN  looked[last]
RECURSIVE InputSumFrom(_, _, _)
InputSumFrom(t, looked, i) ==
    IF i > Len(t.vin) THEN 0
    ELSE InputTx(t, looked, i)[t.vin[i].vout] + InputSumFrom(t, looked, i + 1)

NoSummary == [kind |-> "none", txid |-> 0, weight |-> 0, inputs |-> 0, outputs |-> 0]
NoneTx == <<>>

\* The call _compute_tx_summary(1) on a node holding node_tx for the id.
SInit ==
    /\ node_tx \in NodeTxs
    /\ spc = "start"
    /\ input_txs = <<>>
    /\ summary = NoSummary
    /\ lookups = 0
    /\ raised_exc = "none"

\* tx = await self._bitcoind.get_raw_transaction(txid, True): the call is issued.
SStart ==
    /\ spc = "start"
    /\ spc' = "rpc"
    /\ UNCHANGED <<node_tx, input_txs, summary, lookups, raised_exc>>
    /\ UNCHANGED otherThanSummary

\* The first pass of "for iid in input_txids" or the pass after position i:
\* the map yields x["txid"] of the next input (KeyError without one) and the
\* lookup is issued; after the last input the sum is computed, where an input
\* transaction that is None raises TypeError.
NextInput(looked) ==
    LET i == Len(looked) + 1 IN
    IF i > Len(node_tx.vin)
    THEN IF \E j \in DOMAIN looked : InputTx(node_tx, looked, j) = NoneTx
         THEN /\ spc' = "raised" /\ raised_exc' = "TypeError"
              /\ UNCHANGED <<summary, lookups>>
         ELSE /\ spc' = "returned"
              /\ summary' = RecordTransactionSummary(1, node_tx.weight,
                                InputSumFrom(node_tx, looked, 1), compute_output_sum(node_tx))
              /\ UNCHANGED <<raised_exc, lookups>>
    ELSE IF node_tx.vin[i].coinbase
         THEN /\ spc' = "raised" /\ raised_exc' = "KeyError"
              /\ UNCHANGED <<summary, lookups>>
         ELSE /\ spc' = "lookup"
              /\ lookups' = lookups + 1
              /\ UNCHANGED <<summary, raised_exc>>

\* The call returns the transaction, None, or raises.
SRpc(ans) ==
    /\ spc = "rpc"
    /\ CASE ans = "error" ->
              /\ spc' = "raised" /\ raised_exc' = "BitcoindHttpException"
              /\ UNCHANGED <<summary, lookups>>
         [] ans = "None" ->
              /\ spc' = "returned"
              /\ summary' = NoneEntry
              /\ UNCHANGED <<raised_exc, lookups>>
         [] ans = "tx" ->
              IF is_coinbase(node_tx)
              THEN /\ spc' = "returned"
                   /\ summary' = RecordTransactionSummary(1, node_tx.weight,
                                     compute_output_sum(node_tx), compute_output_sum(node_tx))
                   /\ UNCHANGED <<raised_exc, lookups>>
              ELSE NextInput(input_txs)
    /\ UNCHANGED <<node_tx, input_txs>>
    /\ UNCHANGED otherThanSummary

\* input_txs[iid] = await self._bitcoind.get_raw_transaction(iid, True) returns.
SLookup(ans) ==
    /\ spc = "lookup"
    /\ LET i == Len(input_txs) + 1 IN
       CASE ans = "error" ->
              /\ spc' = "raised" /\ raised_exc' = "BitcoindHttpException"
              /\ UNCHANGED <<summary, lookups, input_txs>>
         [] ans = "None" ->
              /\ input_txs' = Append(input_txs, NoneTx)
              /\ NextInput(Append(input_txs, NoneTx))
         [] ans = "tx" ->
              /\ input_txs' = Append(input_txs, PrevVout[node_tx.vin[i].txid])
              /\ NextInput(Append(input_txs, PrevVout[node_tx.vin[i].txid]))
    /\ UNCHANGED node_tx
    /\ UNCHANGED otherThanSummary

SNext ==
    \/ SStart
    \/ \E ans \in {"tx", "None", "error"} : SRpc(ans)
    \/ \E ans \in {"tx", "None", "error"} : SLookup(ans)

\* _compute_tx_summary is not observed (the other specifications).
SIdle ==
    /\ node_tx = [weight |-> 4, vin |-> <<CoinbaseInput>>, vout |-> <<50>>]
    /\ spc = "idle"
    /\ input_txs = <<>>
    /\ summary = NoSummary
    /\ lookups = 0
    /\ raised_exc = "none"

\* ------------------------------------------------- txdb.py: DbTxLog
\* RecordTransactionLog(txid, timestamp), over two ids and three timestamps.
RecordTransactionLog(t, ts) == [txid |-> t, timestamp |-> ts]
LogRecords == {RecordTransactionLog(t, ts) : t \in 1..2, ts \in 1..3}
\* The lists insert_bulk is given: up to two records, the empty list included.
RecordLists == {<<>>} \cup SeqsUpTo(LogRecords, 2)

Smaller(a, b) == IF a <= b THEN a ELSE b

\* A plausible slip: '$set' in place of '$min'.
UpdateOne_Set(docs, rec) ==
    [t \in DOMAIN docs \cup {rec.txid} |-> IF t = rec.txid THEN rec.timestamp ELSE docs[t]]

\* UpdateOne({'_id': txid}, {'$min': {'time': timestamp}}, upsert=True) applied
\* by the store: the document is created with the timestamp, or its time
\* becomes the smaller of the stored and the given one.
UpdateOne(docs, rec) ==
    [t \in DOMAIN docs \cup {rec.txid} |->
        IF t = rec.txid
        THEN IF t \in DOMAIN docs THEN Smaller(docs[t], rec.timestamp) ELSE rec.timestamp
        ELSE docs[t]]

\* The write_ops of a list, added to the operations in progress.
RECURSIVE WithOps(_, _, _)
WithOps(ops, list, i) ==
    IF i > Len(list) THEN ops
    ELSE WithOps([ops EXCEPT ![list[i]] = @ + 1], list, i + 1)

NoneApplied == [rec |-> RecordTransactionLog(0, 0), before |-> 0]

\* An empty tx_log collection, no call in progress.
LInit ==
    /\ tx_log = <<>>
    /\ write_ops = [r \in LogRecords |-> 0]
    /\ given = {}
    /\ ninserts = 0
    /\ log_exc = "none"
    /\ applied = NoneApplied

\* insert_bulk(list_of_records): bulk_write(write_ops, ordered=False) is issued;
\* pymongo raises InvalidOperation for an empty list of operations.
LInsertBulk(list) ==
    /\ ninserts < MaxInserts
    /\ ninserts' = ninserts + 1
    /\ IF list = <<>>
       THEN /\ log_exc' = "InvalidOperation"
            /\ UNCHANGED <<write_ops, given>>
       ELSE /\ log_exc' = "none"
            /\ write_ops' = WithOps(write_ops, list, 1)
            /\ given' = given \cup {list[i] : i \in 1..Len(list)}
    /\ UNCHANGED <<tx_log, applied>>
    /\ UNCHANGED otherThanTxLog

\* insert(txid, timestamp): insert_bulk of the one record.
LInsert(t, ts) == LInsertBulk(<<RecordTransactionLog(t, ts)>>)

\* The store applies one operation of an unordered bulk write: any of those in
\* progress, each atomically on its document.
LApply(rec) ==
    /\ write_ops[rec] > 0
    /\ tx_log' = UpdateOne(tx_log, rec)
    /\ write_ops' = [write_ops EXCEPT ![rec] = @ - 1]
    /\ applied' = [rec |-> rec,
                   before |-> IF rec.txid \in DOMAIN tx_log THEN tx_log[rec.txid] ELSE 0]
    /\ UNCHANGED <<given, ninserts, log_exc>>
    /\ UNCHANGED otherThanTxLog

LNext ==
    \/ \E list \in RecordLists : LInsertBulk(list)
    \/ \E rec \in LogRecords : LInsert(rec.txid, rec.timestamp)
    \/ \E rec \in LogRecords : LApply(rec)

\* DbTxLog is not in use (the other specifications).
LIdle ==
    /\ tx_log = <<>>
    /\ write_ops = [r \in LogRecords |-> 0]
    /\ given = {}
    /\ ninserts = MaxInserts
    /\ log_exc = "none"
    /\ applied = NoneApplied

\* ------------------------------------------------------- specifications
Init == QInit /\ PIdle /\ BIdle /\ KIdle /\ EIdle /\ SIdle /\ LIdle
Next == QNext
Spec == Init /\ [][Next]_vars

InitRpc == RpcInit /\ PIdle /\ BIdle /\ KIdle /\ EIdle /\ SIdle /\ LIdle
SpecRpc == InitRpc /\ [][RpcNext]_vars

InitPool == PoolInit /\ PIdle /\ BIdle /\ KIdle /\ EIdle /\ SIdle /\ LIdle
SpecPool == InitPool /\ [][PoolNext]_vars

\* The event loop runs every task that is ready: a cancelled worker gets its
\* CancelledError, and close() goes on once its two tasks are done.
FairClose ==
    /\ WF_vars(\E w \in 1..RpcWorkers : WorkerCancelled(w))
    /\ WF_vars(SessionClosed)
    /\ WF_vars(CloseReturn)
SpecClose == InitPool /\ [][CloseNext]_vars /\ FairClose

InitProcess == PInit /\ QInit /\ BIdle /\ KIdle /\ EIdle /\ SIdle /\ LIdle
NextProcess == PNext
SpecProcess == InitProcess /\ [][NextProcess]_vars

\* The event loop runs every coroutine that is ready, and every RPC call and
\* store operation completes (with a result or with an error).
FairProcess ==
    /\ WF_vars(PFetch) /\ WF_vars(PIter) /\ WF_vars(PWake) /\ WF_vars(PGather)
    /\ \A i \in 1..MaxTxids :
         /\ WF_vars(TStart(i))
         /\ WF_vars(\E ans \in RpcAnswers : TRpc(i, ans))
         /\ WF_vars(\E ans \in InputAnswers : TRpcIn(i, ans))
         /\ WF_vars(TInsert(i))
SpecProcessFair == InitProcess /\ [][NextProcess]_vars /\ FairProcess

InitBuckets == BInit /\ QInit /\ PIdle /\ KIdle /\ EIdle /\ SIdle /\ LIdle
SpecBuckets == InitBuckets /\ [][BNext]_vars

InitBlocks == KInit /\ QInit /\ PIdle /\ BIdle /\ EIdle /\ SIdle /\ LIdle
SpecBlocks == InitBlocks /\ [][KNext]_vars
\* A call that has not returned goes on with the next pass of its loop.
FairBlocks == \A c \in Calls : WF_vars(KIterate(c))
SpecBlocksFair == InitBlocks /\ [][KNext]_vars /\ FairBlocks

InitEstimate == EInit /\ QInit /\ PIdle /\ BIdle /\ KIdle /\ SIdle /\ LIdle
SpecEstimate == InitEstimate /\ [][ENext]_vars

InitCorrection == TInit /\ QInit /\ PIdle /\ BIdle /\ KIdle /\ SIdle /\ LIdle
SpecCorrection == InitCorrection /\ [][ECorrect]_vars

InitSummary == SInit /\ QInit /\ PIdle /\ BIdle /\ KIdle /\ EIdle /\ LIdle
SpecSummary == InitSummary /\ [][SNext]_vars

InitTxLog == LInit /\ QInit /\ PIdle /\ BIdle /\ KIdle /\ EIdle /\ SIdle
SpecTxLog == InitTxLog /\ [][LNext]_vars

\* ------------------------------------------------------------ properties
InProcessing == {w \in DOMAIN worker_tasks : worker_tasks[w].pc = "proc"}
Serving == {w \in DOMAIN worker_tasks :
              Live(worker_tasks[w]) /\ ~worker_tasks[w].cancel}
Processed(j) == response[j] # NoResponse

\* C1: every job whose processing function has returned or raised has its
\* handle resolved exactly once, with that return value or that exception,
\* and no worker task has died serving a job.
C1_ResolvedWithOutcome ==
    /\ \A j \in Jobs : Processed(j) =>
          /\ handle[j] = Resolved(ProcessHttp(response[j]))
          /\ sets[j] = 1
    /\ \A w \in DOMAIN worker_tasks : worker_tasks[w].pc # "crashed"

\* C2: a worker cancelled by stop() inside the processing function of a job
\* sets neither a result nor an exception on the job's handle, and no handle
\* is set more than once.
C2_CancelNotDelivered ==
    /\ \A j \in cancelledMidJob :
          /\ sets[j] = 0
          /\ handle[j].state \in {"pending", "cancelled"}
    /\ \A j \in Jobs : sets[j] <= 1

C2_Witness ==
    \E j \in cancelledMidJob : handle[j].state = "pending" /\ ~CancelPending

\* C7: at most Workers jobs are inside the processing function at any time,
\* and at most Workers worker tasks serve the channel, whatever start(),
\* stop() and enqueue calls were made (start() on a running queue adds none).
C7_WorkerBound ==
    /\ Cardinality(InProcessing) <= Workers
    /\ Cardinality(Serving) <= Workers

C7_Witness ==
    /\ running
    /\ Len(worker_tasks) > Workers
    /\ Cardinality(InProcessing) = Workers
    /\ putters # {}

\* C8: the channel never holds more than max_queue_size jobs; an enqueue that
\* found it full is suspended (its handle not returned), and its handle is
\* returned only after a later dequeue and with its job stored in the channel.
C8_Backpressure ==
    /\ Len(queue) <= MaxQueueSize
    /\ \A j \in putters : j \notin returned /\ j \notin Range(entered)
    /\ \A j \in returned :
          /\ j \in Range(entered)
          /\ blockedAt[j] >= 0 => Len(taken) > blockedAt[j]

C8_Witness ==
    \E j \in returned : blockedAt[j] >= 0 /\ j \in Range(queue)

\* C9: get_raw_transaction returns None when the node answered with error
\* code -5, raises the node's error with its code and message for any other
\* non-null error, and returns the result when the error field is null.
C9_NotFoundIsAbsent ==
    \A j \in Jobs :
        (reply[j].kind # "none" /\ handle[j].state \in {"result", "exception"}) =>
            LET resp == response[j] IN
            IF resp.error.null THEN reply[j] = Return(resp.result)
            ELSE IF resp.error.code = -5 THEN reply[j] = Return("None")
            ELSE reply[j] = BitcoindHttpException(resp.error.code, resp.error.message)

C9_Witness ==
    \E j, k \in Jobs :
        /\ ~response[j].error.null /\ response[j].error.code = -5
        /\ reply[j] = Return("None")
        /\ ~response[k].error.null /\ response[k].error.code = 5
        /\ reply[k] = BitcoindHttpException(5, response[k].error.message)

InFlight == {i \in DOMAIN ptasks : ~TaskDone(ptasks[i])}
TasksOf(t) == {i \in DOMAIN ptasks : ptasks[i].txid = t}
Failed(t) == \E i \in TasksOf(t) : ptasks[i].pc = "failed"
Submitted == ppc \in {"gather", "returned", "raised"}

\* C3: process() does not fail because the construction of one id failed.
C3_FailureIsolated ==
    (\E i \in DOMAIN ptasks : ptasks[i].pc = "failed") => ppc # "raised"

\* C4: at most MaxPending construct tasks are started and not yet completed.
C4_AtMostMaxInFlight == Cardinality(InFlight) <= MaxPending

\* C5: an id found in the cache gets no construct task, no RPC lookup and no
\* store write; once all tasks are submitted every id not found has exactly
\* one construct task; of 3 ids with 2 cached exactly one is constructed.
C5_ConstructOnlyMisses ==
    /\ \A t \in found : TasksOf(t) = {} /\ rpcBy[t] = 0 /\ insertsBy[t] = 0
    /\ \A t \in Txids : Cardinality(TasksOf(t)) <= 1
    /\ Submitted =>
          /\ \A t \in Range(txid_list) \ found : Cardinality(TasksOf(t)) = 1
          /\ (Len(txid_list) = 3 /\ Cardinality(found) = 2) => Len(ptasks) = 1

C5_Witness ==
    /\ ppc = "returned"
    /\ Len(txid_list) = 3
    /\ Cardinality(found) = 2
    /\ Len(ptasks) = 1
    /\ \E t \in Txids : rpcBy[t] > 0 /\ insertsBy[t] = 1

\* What C6 says of the entry of id t when process() has returned.
EntryComplete(t) ==
    /\ records[t].kind # "missing"
    /\ t \in found => records[t] = CachedSummary(t)
    /\ (t \notin found /\ records[t].kind = "summary") =>
          /\ t \in store
          /\ \E i \in TasksOf(t) : records[t] = ComputeTxSummary(t, NodeTx(ptasks[i].shape))
    /\ records[t].kind = "None" => insertsBy[t] = 0

C10_DuplicateInsertSucceeds ==
    \A i \in DOMAIN ptasks : ptasks[i].exc # "DuplicateKeyError"

\* C19: submission stalled by the limit resumes only once a pending task is
\* done; process() eventually returns, and no construct task it started is
\* running when it has returned.
C19_StallsThenReturns ==
    /\ [][(ppc = "sleep" /\ ppc' # "sleep") => AnyDone]_vars
    /\ <>(ppc = "returned")
    /\ [](ppc = "returned" => InFlight = {})

\* C21: jobs are handed to the workers in the order in which their enqueue
\* calls completed: what queue.get has handed out so far is the beginning of
\* what queue.put stored, and what waits in the channel is the rest of it.
\* (The order in which the handles are resolved is left free.)
C21_FifoDequeue ==
    /\ Len(taken) <= Len(entered)
    /\ taken \o queue = entered
    /\ \A i, j \in DOMAIN taken :
           i < j => \E a, b \in DOMAIN entered :
                        a < b /\ entered[a] = taken[i] /\ entered[b] = taken[j]

\* Two jobs were handed out to two workers; the job handed out second is
\* resolved, and its worker waits again, while the first is still in process.
C21_Witness ==
    /\ Len(taken) = 2
    /\ handle[taken[2]].state = "result"
    /\ handle[taken[1]].state = "pending"
    /\ \E v, w \in DOMAIN worker_tasks :
           /\ worker_tasks[v].pc = "proc" /\ worker_tasks[v].job = taken[1]
           /\ worker_tasks[w].pc = "get"
    /\ sent[1].job = taken[1]

\* C22: once BitcoindClient.close() has completed, the session is closed and
\* every worker still alive has been cancelled; from then on no job is handed
\* to a worker, and eventually no worker is running.
C22_CloseReleasesBoth ==
    /\ [](close_pc = "done" =>
            /\ session = "closed"
            /\ ~running
            /\ \A w \in DOMAIN worker_tasks :
                   Live(worker_tasks[w]) => worker_tasks[w].cancel)
    /\ [][close_pc = "done" => taken' = taken]_vars
    /\ (close_pc = "done") ~> (\A w \in DOMAIN worker_tasks : ~Live(worker_tasks[w]))

\* close() has completed while one worker was in the processing function and
\* a job was waiting in the channel: the workers have ended, the job waits.
C22_Witness ==
    /\ close_pc = "done"
    /\ session = "closed"
    /\ cancelledMidJob # {}
    /\ queue # <<>>
    /\ \A w \in DOMAIN worker_tasks : ~Live(worker_tasks[w])

\* C26: while the queue is running, the number of live workers equals the
\* pool size, whatever the outcomes of the jobs were: a result, a failure of
\* the processing function, or a handle cancelled by its caller before the
\* worker finished.
C26_PoolStaysFull ==
    running => Cardinality(Serving) = Workers

\* C27: join() returns only in a state where the unfinished count is zero, and
\* then every job enqueued so far has its handle resolved; every job whose
\* processing function has returned or raised has been marked done, so the
\* unfinished count is the number of enqueued jobs not yet processed, which
\* is the number of enqueued jobs whose handle no worker has resolved.
C27_JoinWhenResolved ==
    /\ unfinished = Cardinality({j \in Range(entered) : ~Processed(j)})
    /\ unfinished = Cardinality({j \in Range(entered) :
                                    handle[j].state \notin {"result", "exception"}})
    /\ unfinished = 0 => \A j \in Range(entered) : handle[j].state # "pending"
    /\ join_pc = "waiting" => Range(entered) # {}

\* The number a request id spells.
RECURSIVE IdValue(_)
IdValue(id) ==
    IF Len(id) = 0 THEN 0
    ELSE 10 * IdValue(SubSeq(id, 1, Len(id) - 1)) + id[Len(id)]

\* C20: the ids of the requests of one client, in the order they are sent, are
\* strictly increasing, and no two requests carry the same id, also while
\* several workers have a request outstanding.
C20_IdsIncreasingUnique ==
    /\ \A i, j \in DOMAIN sent :
           i < j => /\ IdValue(sent[i].id) < IdValue(sent[j].id)
                    /\ sent[i].id # sent[j].id
    /\ \A i \in DOMAIN sent : sent[i].id = Str(i)
    /\ request_count = Len(sent)

\* Two workers each have a request outstanding at the same time.
C20_Witness ==
    /\ Len(sent) = 2
    /\ \E v, w \in DOMAIN worker_tasks :
           /\ v # w
           /\ worker_tasks[v].pc = "proc"
           /\ worker_tasks[w].pc = "proc"

\* ------------------------------------------------ properties: FeeBuckets
\* The weight the operations so far put at the fee rates >= t, from the ledger.
LedgerFrom(t) == SumWhere(ledger, {k \in DOMAIN ledger : k >= t})

\* C14 (as stated): get_aggregate_sup(threshold) is the sum of the weights of
\* the keys >= clamp(threshold), for every threshold.
C14_AggregateSupClamped ==
    \A t \in FeeRates : get_aggregate_sup(buckets, t) = LedgerFrom(Clamp(t))

\* C14 (amended): get_aggregate_sup(threshold) is the sum of the weights of the
\* keys >= threshold, the threshold taken as given: 0 for a threshold above the
\* largest key, the full sum for a threshold not above the smallest key.
C14_AggregateSup ==
    \A t \in FeeRates :
        /\ get_aggregate_sup(buckets, t) = LedgerFrom(t)
        /\ (\A k \in DOMAIN buckets : k < t) => get_aggregate_sup(buckets, t) = Zero
        /\ (\A k \in DOMAIN buckets : k >= t) => get_aggregate_sup(buckets, t) = sum(buckets)

C14_Witness ==
    /\ MAX_FEE_RATE \in DOMAIN buckets
    /\ MIN_FEE_RATE \in DOMAIN buckets
    /\ get_aggregate_sup(buckets, MAX_FEE_RATE + 1) = Zero
    /\ get_aggregate_sup(buckets, MAX_FEE_RATE) # Zero
    /\ get_aggregate_sup(buckets, MIN_FEE_RATE - 1) = sum(buckets)

\* C15: every stored key has a strictly positive weight, the membership test is
\* true exactly for the fee rates holding a positive weight, and a write of
\* weight 0 succeeds and leaves the fee rate absent whether it was stored or not.
C15_SparsePositive ==
    /\ \A k \in DOMAIN buckets : buckets[k].num > 0
    /\ \A r \in FeeRates : contains(buckets, r) <=> ledger[Clamp(r)].num > 0
    /\ (lastop.op = "write" /\ lastop.value = Zero) =>
           /\ lastop.err = "none"
           /\ Clamp(lastop.rate) \notin DOMAIN buckets

\* C16: every stored key lies in MIN_FEE_RATE..MAX_FEE_RATE, a read at fee rate
\* r returns what the writes and accumulates at the rates with the same clamp
\* put there, and after bucket[r] += w a read of r returns the value read
\* before plus w.
C16_ClampedKeys ==
    /\ DOMAIN buckets \subseteq MIN_FEE_RATE..MAX_FEE_RATE
    /\ \A r \in FeeRates : getitem(buckets, r) = ledger[Clamp(r)]
    /\ lastop.op = "accumulate" =>
           getitem(buckets, lastop.rate) = Plus(lastop.before, lastop.value)

C16_Witness ==
    /\ lastop.op = "accumulate"
    /\ lastop.err = "none"
    /\ lastop.rate > MAX_FEE_RATE
    /\ lastop.value # Zero
    /\ lastop.before # Zero
    /\ getitem(buckets, MAX_FEE_RATE) = Plus(lastop.before, lastop.value)
    /\ getitem(buckets, MIN_FEE_RATE - 1) # Zero

\* ------------------------------------------- properties: the estimation
\* The weight (WU, whole numbers in the buckets explored) stored at the fee
\* rates >= r.
RECURSIVE WeightOf(_, _)
WeightOf(b, keys) ==
    IF keys = {} THEN 0
    ELSE LET k == CHOOSE x \in keys : TRUE
         IN  (b[k].num \div b[k].den) + WeightOf(b, keys \ {k})
WeightFrom(b, r) == WeightOf(b, {k \in DOMAIN b : k >= r})

\* The largest bucket key over the mempool and all flows (0 without keys).
LargestKey ==
    LET keys == DOMAIN mempool \cup UNION {DOMAIN flow[m] : m \in DOMAIN flow}
    IN  IF keys = {} THEN 0 ELSE CHOOSE k \in keys : \A x \in keys : x <= k

\* "mempool.aggregateSup(r) + m * flow[m].aggregateSup(r)
\*    - minExpectedBlocks(m, c) * blockCapacity <= 0"
Empties(m, c, r) ==
    WeightFrom(mempool, r) + m * WeightFrom(flow[m], r)
        - get_min_expected_blocks(m, c) * BLOCK_CAPACITY_WU <= 0

\* C11: the table of line 228 holds, for each window m and confidence c, the
\* least fee rate r >= 1 that empties the bucket, and infinity exactly when no
\* r in 1..largest key + 1 does; a mempool of 1,000,000 WU at one fee rate r
\* with zero flow has an estimate <= r wherever at least one block is expected.
C11_LeastRateThatEmpties ==
    epc = "computed" =>
        \A m \in DOMAIN output : \A c \in DOMAIN output[m] :
            /\ output[m][c].inf <=> ~\E r \in 1..(LargestKey + 1) : Empties(m, c, r)
            /\ ~output[m][c].inf =>
                   /\ output[m][c].rate >= 1
                   /\ Empties(m, c, output[m][c].rate)
                   /\ \A r \in 1..(LargestKey + 2) :
                          Empties(m, c, r) => output[m][c].rate <= r
            /\ \A r \in DOMAIN mempool :
                   (/\ mempool = [k \in {r} |-> Number(1000000, 1)]
                    /\ \A w \in DOMAIN flow : flow[w] = EmptyBuckets
                    /\ get_min_expected_blocks(m, c) >= 1)
                   => AtMost(output[m][c], Finite(r))

C11_Witness ==
    /\ epc = "computed"
    /\ mempool = [k \in {5} |-> Number(1000000, 1)]
    /\ \A w \in DOMAIN flow : flow[w] = EmptyBuckets
    /\ \E m \in DOMAIN output :
         /\ get_min_expected_blocks(m, 5) >= 1
         /\ output[m][5] = Finite(1)
         /\ get_min_expected_blocks(m, 9) = 0
         /\ output[m][9] = Finite(5 + 1)

\* C12 (as stated): for one window, a call with the larger confidence returns
\* at least as many blocks.
C12_MoreBlocksWithConfidence ==
    (/\ returned_blocks[1] /\ returned_blocks[2]
     /\ target_prob[1] >= target_prob[2])
    => blocks[1] >= blocks[2]

\* C12 (amended): for one window, a call with the larger confidence returns at
\* most as many blocks.
C12_FewerBlocksWithConfidence ==
    (/\ returned_blocks[1] /\ returned_blocks[2]
     /\ target_prob[1] >= target_prob[2])
    => blocks[1] <= blocks[2]

C12_Witness ==
    /\ returned_blocks[1] /\ returned_blocks[2]
    /\ target_prob[1] = 9 /\ target_prob[2] = 5
    /\ blocks[1] < blocks[2]
    /\ blocks[1] > 0

\* P(Poisson(m / 10) > k) as the sum of the probabilities of k+1, k+2, ...
\* blocks, multiplied by 10 (to compare with a confidence in tenths) and by
\* the common denominator.
RECURSIVE TailFrom(_, _)
TailFrom(expected, j) ==
    IF j > PoissonTerms THEN 0
    ELSE SeriesTerm(expected, j) + TailFrom(expected, j + 1)
TailTable ==
    [expected \in 1..MaxWindow |-> [j \in 0..PoissonTerms |-> TailFrom(expected, j)]]
SurvivalBelow(m, k, tenths) ==
    LET tail == TailTable[m \div TARGET_BLOCK_TIME_MINUTES]
    IN  (IF k + 1 > PoissonTerms THEN 0 ELSE tail[k + 1]) * 10 < tenths * tail[0]

\* C24: every call of get_min_expected_blocks returns, and what it returns is
\* the smallest k >= 0 with P(Poisson(m / 10) > k) < c: the survival
\* probability is below c at k and at least c at every k' < k.
C24_TerminatesWithSmallest ==
    <>[](\A c \in Calls :
            /\ returned_blocks[c]
            /\ blocks[c] >= 0
            /\ SurvivalBelow(minutes, blocks[c], target_prob[c])
            /\ \A k \in 0..(blocks[c] - 1) : ~SurvivalBelow(minutes, k, target_prob[c]))

\* The longest window with confidence 0.1 went round the loop five times, and
\* the same window with confidence 1 returned 0 at once.
C24_Witness ==
    /\ minutes = TARGET_BLOCK_TIME_MINUTES * MaxWindow
    /\ returned_blocks[1] /\ returned_blocks[2]
    /\ target_prob[1] = 1 /\ target_prob[2] = 10
    /\ blocks[1] >= 5
    /\ blocks[2] = 0

\* C25: with non-negative weights, every entry of the table, before and after
\* the correction, is a finite fee rate r with 1 <= r <= K + 1, K being the
\* largest key over the mempool and all flows; the fee rate K + 1 empties the
\* bucket for every window and confidence.
C25_FiniteWithinRange ==
    epc \in {"computed", "returned"} =>
        /\ \A k \in DOMAIN mempool : mempool[k].num >= 0
        /\ \A m \in DOMAIN output : \A c \in DOMAIN output[m] :
               /\ ~output[m][c].inf
               /\ 1 <= output[m][c].rate
               /\ output[m][c].rate <= LargestKey + 1
               /\ LargestKey + 1 <= MAX_FEE_RATE + 1
               /\ Empties(m, c, LargestKey + 1)

\* An estimate of MAX_FEE_RATE + 1 is returned: the mempool holds more at the
\* highest fee rate than the blocks expected in the window carry.
C25_Witness ==
    /\ epc = "returned"
    /\ MAX_FEE_RATE \in DOMAIN mempool
    /\ \E m \in DOMAIN output :
           /\ output[m][9] = Finite(MAX_FEE_RATE + 1)
           /\ get_min_expected_blocks(m, 9) = 0
           /\ output[m][5].rate <= MAX_FEE_RATE

RECURSIVE PrefixMin(_, _, _, _)
PrefixMin(t, list, c, i) ==
    IF i = 1 THEN t[list[1]][c]
    ELSE MinOf(PrefixMin(t, list, c, i - 1), t[list[i]][c])

\* C23: after correction_decreasing_fees, for each listed confidence the
\* estimate of the i-th listed window is the minimum of the original estimates
\* of the windows listed up to it, in the given order; no estimate is raised;
\* and applying the correction again changes nothing.
C23_RunningMinimum ==
    epc = "returned" =>
        /\ DOMAIN output = DOMAIN uncorrected
        /\ \A i \in 1..Len(targets_minute) :
               \A c \in DOMAIN output[targets_minute[i]] :
                   /\ output[targets_minute[i]][c] =
                         IF c \in Confidences(given_confidence)
                         THEN PrefixMin(uncorrected, targets_minute, c, i)
                         ELSE uncorrected[targets_minute[i]][c]
                   /\ AtMost(output[targets_minute[i]][c], uncorrected[targets_minute[i]][c])
        /\ correction_decreasing_fees(output, targets_minute, given_confidence) = output

\* The list is not sorted; the third window listed is lowered to the first
\* one's estimate, lower than the second's; an infinite estimate is replaced;
\* and the confidence that is not listed keeps its estimates.
C23_Witness ==
    /\ epc = "returned"
    /\ Len(targets_minute) = 3
    /\ targets_minute[1] > targets_minute[2]
    /\ given_confidence = <<5>>
    /\ uncorrected[targets_minute[1]][5] = Finite(1)
    /\ uncorrected[targets_minute[2]][5] = POSITIVE_INFINITY
    /\ uncorrected[targets_minute[3]][5] = Finite(2)
    /\ output[targets_minute[2]][5] = Finite(1)
    /\ output[targets_minute[3]][5] = Finite(1)
    /\ uncorrected[targets_minute[1]][8] = Finite(1)
    /\ output[targets_minute[2]][8] = Finite(2)

\* ------------------------------------------- properties: _compute_tx_summary
\* The value of the previous output input i of the transaction refers to.
ReferencedValue(i) == PrevVout[node_tx.vin[i].txid][node_tx.vin[i].vout]
RECURSIVE TotalOf(_, _)
TotalOf(f(_), S) ==
    IF S = {} THEN 0
    ELSE LET i == CHOOSE x \in S : TRUE IN f(i) + TotalOf(f, S \ {i})
OutputValue(i) == node_tx.vout[i]

\* C17: a constructed summary of a transaction whose first input has no
\* previous-output reference has inputs = outputs, whatever its outputs and its
\* other inputs are, and no input lookup was issued for it; of any other
\* transaction it has inputs = the sum of the referenced previous outputs, and
\* one lookup was issued per input.
C17_CoinbaseOrInputSum ==
    (spc = "returned" /\ summary.kind = "summary") =>
        /\ summary.outputs = TotalOf(OutputValue, DOMAIN node_tx.vout)
        /\ IF node_tx.vin[1].coinbase
           THEN summary.inputs = summary.outputs /\ lookups = 0
           ELSE /\ lookups = Len(node_tx.vin)
                /\ \A i \in DOMAIN node_tx.vin : ~node_tx.vin[i].coinbase
                /\ summary.inputs = TotalOf(ReferencedValue, DOMAIN node_tx.vin)

C17_Witness ==
    /\ spc = "returned"
    /\ Len(node_tx.vin) = 2
    /\ node_tx.vin[1].coinbase
    /\ ~node_tx.vin[2].coinbase
    /\ node_tx.vout = <<1, 50>>
    /\ summary = RecordTransactionSummary(1, 4, 51, 51)
    /\ lookups = 0

\* ------------------------------------------------- properties: DbTxLog
\* The timestamps given for a txid so far.
GivenFor(t) == {r.timestamp : r \in {g \in given : g.txid = t}}
NoWriteInProgress == \A r \in LogRecords : write_ops[r] = 0

\* C18: once the insert / insert_bulk calls made so far are complete, a txid is
\* stored exactly if a record was given for it, and its stored time is the
\* least timestamp given for it; an operation with a larger timestamp than the
\* stored one leaves the stored time unchanged.
C18_MinimumTimestamp ==
    /\ NoWriteInProgress =>
           \A t \in 1..2 :
               IF GivenFor(t) = {} THEN t \notin DOMAIN tx_log
               ELSE /\ t \in DOMAIN tx_log
                    /\ tx_log[t] \in GivenFor(t)
                    /\ \A ts \in GivenFor(t) : tx_log[t] <= ts
    /\ (applied.before > 0 /\ applied.rec.timestamp > applied.before) =>
           tx_log[applied.rec.txid] = applied.before

C18_Witness ==
    /\ NoWriteInProgress
    /\ ninserts = 2
    /\ GivenFor(1) = {1, 3}
    /\ tx_log[1] = 1
    /\ GivenFor(2) = {2, 3}
    /\ tx_log[2] = 2
    /\ applied = [rec |-> RecordTransactionLog(1, 3), before |-> 1]
====
